---- MODULE Spec2Model ----
(***************************************************************************)
(* The routing engine of Ambulance_final.                                  *)
(*                                                                         *)
(* One call of TrafficAwareRouter.calculate_optimal_route is followed      *)
(* statement by statement: the primary tier (_get_osrm_routes and the      *)
(* enhancement loop), the secondary tier (GraphHopperRouter.get_route and  *)
(* its enhancement loop) and the local tier (_generate_fallback_route:     *)
(* OSMStreetLoader.get_bishkek_streets, StreetGraphRouter.find_route).     *)
(* Every remote answer, every outcome of the predictor and the content of  *)
(* the street cache are choices of the environment.                        *)
(*                                                                         *)
(* Python dictionaries are records; a key the dictionary lacks is a field  *)
(* the record lacks.  Durations are whole minutes counted in seconds.      *)
(* Coordinates are points <<lat, lng>> of a small integer grid, and the    *)
(* great-circle distance is the grid's city-block distance.                *)
(*                                                                         *)
(* The units the call relies on have specifications of their own over the  *)
(* same variables: SpecGraph (StreetGraphRouter: graph construction and    *)
(* find_route with the A* search of _astar), SpecTraffic (TrafficManager:  *)
(* generate_traffic_for_streets, get_traffic_color), SpecPredict           *)
(* (TravelTimePredictor.predict_travel_time), SpecEnhance                  *)
(* (_enhance_route_with_traffic and its helpers), SpecLoader               *)
(* (OSMStreetLoader.get_bishkek_streets, one caller),                      *)
(* SpecLoaderConcurrent (two callers interleaved), SpecAstar (the while    *)
(* loop of _astar, one pass at a time), SpecServices (get_router,          *)
(* get_predictor and get_graphhopper called from two threads) and          *)
(* SpecLevels (the three classifications of a congestion).                 *)
(***************************************************************************)
EXTENDS Integers, Sequences, FiniteSets, TLC

\* Bound of the model: the most routes (paths) one provider payload carries.
MaxRoutes == 2

\* len(self.osrm_servers)
NumServers == 3

\* self.max_retries: 1 as constructed; 2 is "1-2" of the design.
RetrySettings == {1, 2}

VARIABLES
    pc,               \* the statement the call is at; locals are None, 0
                      \* or empty while they are unset or dead
    max_retries,      \* self.max_retries
    call,             \* the arguments start_lat, start_lng, end_lat, end_lng
    srv,              \* index of base_url in self.osrm_servers (1-based)
    att,              \* attempt of range(self.max_retries)
    base_routes,      \* what _get_osrm_routes returned
    gh_data,          \* what gh_router.get_route returned
    idx,              \* position of the enhancement loop (1-based)
    enhanced_routes,  \* the list the enhancement loop builds
    streets,          \* what get_bishkek_streets returned
    cache,            \* OSMStreetLoader._cache and whether it is still valid,
                      \* as the call's get_bishkek_streets found and left it
    result,           \* the dictionary returned to the caller
    log,              \* history: network requests, pauses, tiers entered
    excs,             \* history: exceptions raised and caught
    enhLog,           \* history: the routes the current enhancement loop
                      \* handed to _enhance_route_with_traffic
    graph,            \* StreetGraphRouter.graph of the router under study
    find,             \* arguments and locals of its last find_route call
    traffic,          \* what generate_traffic_for_streets returned last
    color,            \* the last get_traffic_color call and its answer
    model,            \* TravelTimePredictor.model
    prediction,       \* the last predict_travel_time call and its answer
    enhance,          \* the last call of _enhance_route_with_traffic or of
                      \* one of its helpers, with its locals and answer
    loader,           \* OSMStreetLoader: _cache, _cache_timestamp, the clock
                      \* and the callers of get_bishkek_streets
    services,         \* the module globals _router_instance,
                      \* _predictor_instance and _graphhopper_instance, and
                      \* the callers of their accessors
    classified        \* one congestion and the level each of the three
                      \* classifications of the code gave it

\* The state of the components studied on their own; a call of
\* calculate_optimal_route leaves it alone.
unitVars == <<graph, find, traffic, color, model, prediction, enhance, loader,
             services, classified>>

vars == <<pc, max_retries, call, srv, att, base_routes, gh_data, idx,
          enhanced_routes, streets, cache, result, log, excs, enhLog, unitVars>>

None == [none |-> TRUE]

\* The empty dictionary {}.
EmptyDict == [k \in {} |-> 0]

\* None where a node, a tuple, is expected.
NoNode == <<>>

----------------------------------------------------------------------------
(* Values of the environment *)

\* Durations of routes in seconds, provider-given or predicted.
Durations == {60, 120}

Qualities == {"excellent", "good", "fair", "poor"}

\* A geometry of a provider's route, GeoJSON [lng, lat] points.
ProviderGeometry == [coordinates |-> << <<0, 0>>, <<1, 1>> >>, type |-> "LineString"]

\* Routes of an OSRM payload: well-formed, or lacking a key the code reads.
OsrmRawRoutes ==
    {[geometry |-> ProviderGeometry, distance |-> 1000, duration |-> d] : d \in Durations}
    \cup {[geometry |-> ProviderGeometry, distance |-> 1000]}
    \cup {[geometry |-> ProviderGeometry, duration |-> 60]}

SeqsUpTo(S, n) == UNION {[1..k -> S] : k \in 0..n}

\* Bodies of an HTTP 200 answer of an OSRM endpoint.
OsrmBodies ==
    {[shape |-> s, routes |-> <<>>] :
        s \in {"invalid_json", "not_object", "routes_unsized", "empty_object", "no_routes_key"}}
    \cup {[shape |-> "routes", routes |-> rs] : rs \in SeqsUpTo(OsrmRawRoutes, MaxRoutes)}

NoBody == [shape |-> "none", routes |-> <<>>]

\* Outcomes of requests.get on an OSRM endpoint.
OsrmResponses ==
    {[kind |-> k, status |-> 0, body |-> NoBody] : k \in {"timeout", "transport_error"}}
    \cup {[kind |-> "http", status |-> s, body |-> NoBody] : s \in {204, 429, 500}}
    \cup {[kind |-> "http", status |-> 200, body |-> b] : b \in OsrmBodies}

\* Outcomes of predictor.predict_travel_time and _calculate_route_quality for
\* one route: predicted seconds and quality.  Every duration comes with a
\* quality that recommends and one that does not, and every quality occurs;
\* the confidence percentage is one representative of 50..100.
QualitiesAt(d) == IF (d \div 60) % 2 = 1 THEN {"excellent", "poor"} ELSE {"good", "fair"}

Predictions ==
    UNION {{[seconds |-> d, quality |-> q, confidence |-> 85] : q \in QualitiesAt(d)} :
              d \in Durations}

\* Outcomes of one _enhance_route_with_traffic call beyond the route's own keys.
EnhanceOutcomes == {[raises |-> TRUE, seconds |-> 60, quality |-> "good", confidence |-> 85]}
    \cup {[raises |-> FALSE, seconds |-> p.seconds, quality |-> p.quality,
           confidence |-> p.confidence] : p \in Predictions}

----------------------------------------------------------------------------
(* _get_osrm_routes *)

\* Lines 234-248: how one attempt ends.  "return": line 242; "status": the
\* else branch of line 243; "exception": the except clause of line 246
\* (requests.get raised, response.json() raised, data.get or len raised).
AttemptOutcome(resp) ==
    IF resp.kind # "http" THEN "exception"
    ELSE IF resp.status = 200
         THEN IF resp.body.shape \in {"invalid_json", "not_object", "routes_unsized"}
              THEN "exception"
              ELSE "return"
         ELSE "status"

\* Line 240: data = response.json() for a body the attempt returns.
JsonOf(body) ==
    CASE body.shape = "empty_object" -> EmptyDict
      [] body.shape = "no_routes_key" -> [code |-> "NoRoute"]
      [] OTHER -> [code |-> "Ok", routes |-> body.routes, waypoints |-> "provider"]

\* A variant of AfterStatus in which a status other than 200 gives up the
\* remaining servers.
AfterStatusAborts(s, a, maxr) ==
    [srv |-> NumServers + 1, att |-> 0, sleep |-> FALSE, returns |-> FALSE]

\* Lines 243-256: after a non-200 status the retry loop is left (break).
AfterStatus(s, a, maxr) == [srv |-> s + 1, att |-> 0, sleep |-> FALSE, returns |-> FALSE]

\* Lines 246-253: after an exception the next attempt on the same server
\* follows, after a pause, unless this was the server's last attempt.
AfterException(s, a, maxr) ==
    IF a < maxr - 1
    THEN [srv |-> s, att |-> a + 1, sleep |-> TRUE, returns |-> FALSE]
    ELSE [srv |-> s + 1, att |-> 0, sleep |-> FALSE, returns |-> FALSE]

\* A variant of AfterReturn in which a payload does not end the chain.
AfterReturnKeepsTrying(s, a, maxr) ==
    [srv |-> s + 1, att |-> 0, sleep |-> FALSE, returns |-> FALSE]

\* Line 242: return data ends the call of _get_osrm_routes.
AfterReturn(s, a, maxr) == [srv |-> s, att |-> a, sleep |-> FALSE, returns |-> TRUE]

Event(e, s, ok) == [ev |-> e, srv |-> s, ok |-> ok]

----------------------------------------------------------------------------
(* calculate_optimal_route, the primary tier *)

\* A variant of OuterExcept that catches only the exception of line 259.
OuterExceptNetworkOnly(exc) == IF exc = "all_servers_failed" THEN "gh" ELSE "raised"

\* Line 93: except Exception catches whatever the try block of line 50 raised.
OuterExcept(exc) == "gh"

\* Line 55: not base_routes or 'routes' not in base_routes.
OsrmUnusable(data) == DOMAIN data = {} \/ "routes" \notin DOMAIN data

Max(a, b) == IF a >= b THEN a ELSE b

\* _enhance_route_with_traffic raises on a route without distance or duration
\* (lines 281, 290), and when matching or prediction raise.
EnhanceRaises(route, out) ==
    out.raises \/ "distance" \notin DOMAIN route \/ "duration" \notin DOMAIN route

\* Lines 302-319: the enhanced route {**route, ...}.
Enhanced(route, out, is_primary) ==
    [traffic_aware_duration |-> out.seconds,
     traffic_aware_duration_minutes |-> out.seconds \div 60,
     base_duration |-> route.duration,
     base_duration_minutes |-> route.duration \div 60,
     traffic_delay_seconds |-> Max(0, out.seconds - route.duration),
     traffic_delay_minutes |-> Max(0, out.seconds - route.duration) \div 60,
     min_time_minutes |-> "predicted",
     max_time_minutes |-> "predicted",
     confidence |-> out.confidence,
     average_speed |-> "predicted",
     average_congestion |-> "predicted",
     quality |-> out.quality,
     is_recommended |-> (is_primary /\ out.quality \in {"excellent", "good"}),
     traffic_segments |-> "summary",
     prediction_breakdown |-> "breakdown"] @@ route

\* Lines 69-82: the except clause of the OSRM loop writes provider values
\* into the route; it reads route['duration'] and route['distance'].
HandlerRaises(route) == "duration" \notin DOMAIN route \/ "distance" \notin DOMAIN route

HandlerRoute(route) ==
    [traffic_aware_duration |-> route.duration,
     traffic_aware_duration_minutes |-> route.duration \div 60,
     min_time_minutes |-> route.duration \div 60,
     max_time_minutes |-> route.duration \div 60,
     confidence |-> 100,
     average_speed |-> "provider",
     average_congestion |-> 0,
     traffic_delay_minutes |-> 0,
     quality |-> "good"] @@ route

\* Line 85: enhanced_routes.sort(key=traffic_aware_duration), a stable sort.
InsertByDuration(s, r) ==
    LET n == Cardinality({i \in 1..Len(s) :
                 s[i].traffic_aware_duration <= r.traffic_aware_duration})
    IN SubSeq(s, 1, n) \o <<r>> \o SubSeq(s, n + 1, Len(s))

RECURSIVE SortByDuration(_)
SortByDuration(s) ==
    IF s = <<>> THEN <<>>
    ELSE InsertByDuration(SortByDuration(SubSeq(s, 1, Len(s) - 1)), s[Len(s)])

\* Lines 84-91: the primary tier's result.
OsrmResult(routes, data) ==
    [code |-> "Ok", routes |-> SortByDuration(routes), waypoints |-> data.waypoints]

----------------------------------------------------------------------------
(* GraphHopperRouter.get_route and the secondary tier *)

\* Paths of a GraphHopper payload: complete, without points, or without
\* distance and time.  time is in milliseconds.
GhPaths ==
    {[points |-> ProviderGeometry, distance |-> 1000, time |-> d * 1000] : d \in Durations}
    \cup {[distance |-> 1000, time |-> 60000]}
    \cup {[points |-> ProviderGeometry]}

GhBodies ==
    {[shape |-> s, paths |-> <<>>] : s \in {"invalid_json", "not_object", "no_paths_key"}}
    \cup {[shape |-> "paths", paths |-> ps] : ps \in SeqsUpTo(GhPaths, MaxRoutes)}

NoGhBody == [shape |-> "none", paths |-> <<>>]

\* Outcomes of requests.get on the GraphHopper endpoint.
GhResponses ==
    {[kind |-> k, status |-> 0, body |-> NoGhBody] : k \in {"timeout", "transport_error"}}
    \cup {[kind |-> "http", status |-> s, body |-> NoGhBody] : s \in {401, 429, 500}}
    \cup {[kind |-> "http", status |-> 200, body |-> b] : b \in GhBodies}

\* dict.get(key, default)
Get(d, key, default) == IF key \in DOMAIN d THEN d[key] ELSE default

\* Lines 73-89 of graphhopper_router.py: one path as an OSRM-shaped route.
GhRoute(path) ==
    [geometry |-> [coordinates |-> Get(Get(path, "points", EmptyDict), "coordinates", <<>>),
                   type |-> "LineString"],
     distance |-> Get(path, "distance", 0),
     duration |-> Get(path, "time", 0) \div 1000,
     legs |-> <<>>,
     weight |-> Get(path, "time", 0) \div 1000]

\* Lines 91-98: routes[0]['geometry']['coordinates'][0] raises IndexError
\* when the first path has no coordinates.
ConvertRaises(paths) ==
    paths # <<>> /\ GhRoute(paths[1]).geometry.coordinates = <<>>

ConvertToOsrmFormat(paths) ==
    [code |-> "Ok",
     routes |-> [i \in 1..Len(paths) |-> GhRoute(paths[i])],
     waypoints |-> "provider"]

\* Lines 50-67: get_route returns the converted payload, or None on a
\* request that raised, a status other than 200, or a payload that made
\* json(), data.get or the conversion raise.
GetRoute(resp) ==
    IF resp.kind # "http" \/ resp.status # 200 THEN None
    ELSE IF resp.body.shape \in {"invalid_json", "not_object"} THEN None
    ELSE IF ConvertRaises(resp.body.paths) THEN None
    ELSE ConvertToOsrmFormat(resp.body.paths)

\* Line 102 of traffic_router.py: gh_data and gh_data.get('routes').
GhUsable(data) == data # None /\ Get(data, "routes", <<>>) # <<>>

\* A variant of GhEnhanceFailed without the handler of lines 112-114.
GhEnhanceFailedPropagates(routes, route) == [raise |-> TRUE, routes |-> routes]

\* Lines 112-114: a GraphHopper route whose enhancement raised is appended
\* as the provider gave it, and the loop goes on.
GhEnhanceFailed(routes, route) == [raise |-> FALSE, routes |-> Append(routes, route)]

\* A variant of GhResult that labels the secondary tier's result Fallback.
GhResultLabelledFallback(routes, data) ==
    [code |-> "Fallback", routes |-> routes, waypoints |-> data.waypoints]

\* Lines 116-120: the secondary tier's result; the list is returned as built.
GhResult(routes, data) ==
    [code |-> "Ok", routes |-> routes, waypoints |-> data.waypoints]

----------------------------------------------------------------------------
(* OSMStreetLoader.get_bishkek_streets *)

\* A street list: ways are the streets' coords, lists of [lat, lng]; a list
\* that is not wellformed holds a coordinate that is no number, on which
\* _haversine raises.
StreetList(ways, wellformed) == [ways |-> ways, wellformed |-> wellformed]

\* _get_fallback_streets: two-point streets that share no vertex.
FallbackStreets ==
    StreetList(<< << <<0, 0>>, <<0, 2>> >>, << <<2, 0>>, <<2, 2>> >> >>, TRUE)

\* What _process_overpass_data can return: no way at all, ways that meet
\* in a vertex, and ways with a coordinate that is no number.
OverpassStreets ==
    {StreetList(<<>>, TRUE),
     StreetList(<< << <<0, 0>>, <<0, 1>>, <<0, 2>> >>, << <<0, 1>>, <<1, 1>> >> >>, TRUE),
     StreetList(<< << <<0, 0>>, <<0, 1>> >> >>, FALSE)}

\* Outcomes of _fetch_from_overpass: the processed answer, or the built-in
\* list when the request, json() or the processing raised (lines 82-85).
FetchOutcomes ==
    {[ok |-> TRUE, streets |-> s] : s \in OverpassStreets}
    \cup {[ok |-> FALSE, streets |-> FallbackStreets]}

\* _cache with _is_cache_valid(): absent, older than 24 hours, or younger.
CacheStates ==
    {[data |-> None, valid |-> FALSE], [data |-> FallbackStreets, valid |-> FALSE]}
    \cup {[data |-> s, valid |-> TRUE] : s \in OverpassStreets \cup {FallbackStreets}}

\* Line 36 of osm_loader.py with force_refresh = False.
CacheHit(c) == c.valid

----------------------------------------------------------------------------
(* StreetGraphRouter *)

Abs(x) == IF x >= 0 THEN x ELSE 0 - x

\* _haversine(lat1, lng1, lat2, lng2) in km; one grid step is 5 km.
Haversine(lat1, lng1, lat2, lng2) == 5 * (Abs(lat2 - lat1) + Abs(lng2 - lng1))

\* A variant of SegmentsOf without the test of line 31: a street with one
\* vertex gives the pair of that vertex with itself.
RECURSIVE SegmentsOfKeepsPoints(_)
SegmentsOfKeepsPoints(ways) ==
    IF ways = <<>> THEN <<>>
    ELSE LET w == ways[1]
         IN (IF Len(w) = 0 THEN <<>>
             ELSE IF Len(w) = 1 THEN << <<w[1], w[1]>> >>
             ELSE [i \in 1..(Len(w) - 1) |-> <<w[i], w[i + 1]>>])
            \o SegmentsOfKeepsPoints(Tail(ways))

\* Lines 29-37: the pairs of consecutive points of the streets with at
\* least two points, in the order the loops visit them.
RECURSIVE SegmentsOf(_)
SegmentsOf(ways) ==
    IF ways = <<>> THEN <<>>
    ELSE LET w == ways[1]
         IN (IF Len(w) < 2 THEN <<>>
             ELSE [i \in 1..(Len(w) - 1) |-> <<w[i], w[i + 1]>>])
            \o SegmentsOf(Tail(ways))

EmptyGraph == [nodes |-> <<>>, adj |-> EmptyDict]

\* A variant of AddEdge without line 49: the edge is entered at p1 only.
AddEdgeOneWay(g, seg) ==
    LET p1 == seg[1]
        p2 == seg[2]
        dist == Haversine(p1[1], p1[2], p2[1], p2[2])
        has(ns, p) == \E i \in 1..Len(ns) : ns[i] = p
        n1 == IF has(g.nodes, p1) THEN g.nodes ELSE Append(g.nodes, p1)
        n2 == IF has(n1, p2) THEN n1 ELSE Append(n1, p2)
        old(p) == IF p \in DOMAIN g.adj THEN g.adj[p] ELSE <<>>
        a1 == (p1 :> Append(old(p1), <<p2, dist>>)) @@ g.adj
        a2 == (p2 :> (IF p2 \in DOMAIN a1 THEN a1[p2] ELSE <<>>)) @@ a1
    IN [nodes |-> n2, adj |-> a2]

\* Lines 40-49: one pair added to the graph.  nodes is the dictionary's key
\* order, adj the neighbour lists.
AddEdge(g, seg) ==
    LET p1 == seg[1]
        p2 == seg[2]
        dist == Haversine(p1[1], p1[2], p2[1], p2[2])
        has(ns, p) == \E i \in 1..Len(ns) : ns[i] = p
        n1 == IF has(g.nodes, p1) THEN g.nodes ELSE Append(g.nodes, p1)
        n2 == IF has(n1, p2) THEN n1 ELSE Append(n1, p2)
        old(p) == IF p \in DOMAIN g.adj THEN g.adj[p] ELSE <<>>
        a1 == (p1 :> Append(old(p1), <<p2, dist>>)) @@ g.adj
        a2 == (p2 :> Append((IF p2 \in DOMAIN a1 THEN a1[p2] ELSE <<>>), <<p1, dist>>)) @@ a1
    IN [nodes |-> n2, adj |-> a2]

RECURSIVE AddEdges(_, _)
AddEdges(g, segs) ==
    IF segs = <<>> THEN g ELSE AddEdges(AddEdge(g, segs[1]), Tail(segs))

\* _build_graph
BuildGraph(ways) == AddEdges(EmptyGraph, SegmentsOf(ways))

\* _find_nearest_node: None on an empty graph, else the first node in key
\* order at the least distance (line 96 replaces on a strictly smaller one).
FindNearestNode(g, lat, lng) ==
    IF g.nodes = <<>> THEN NoNode
    ELSE LET d(i) == Haversine(lat, lng, g.nodes[i][1], g.nodes[i][2])
             best == CHOOSE i \in 1..Len(g.nodes) :
                        /\ \A j \in 1..Len(g.nodes) : d(i) <= d(j)
                        /\ \A j \in 1..(i - 1) : d(j) > d(i)
         IN g.nodes[best]

Neighbours(g, n) == {g.adj[n][i][1] : i \in 1..Len(g.adj[n])}

NodeSet(g) == {g.nodes[i] : i \in 1..Len(g.nodes)}

\* The paths of the graph from start to goal that visit no node twice.
SimplePaths(g, start, goal) ==
    {p \in UNION {[1..k -> NodeSet(g)] : k \in 1..Len(g.nodes)} :
        /\ p[1] = start
        /\ p[Len(p)] = goal
        /\ \A i, j \in 1..Len(p) : i # j => p[i] # p[j]
        /\ \A i \in 1..(Len(p) - 1) : p[i + 1] \in Neighbours(g, p[i])}

\* Lines 119 and 145: the heuristic of a node is its distance to the goal.
\* A variant that overrates the remaining distance comes first.
HeuristicInflated(node, goal) == 4 * Haversine(node[1], node[2], goal[1], goal[2])

Heuristic(node, goal) == Haversine(node[1], node[2], goal[1], goal[2])

\* The order of the heap's entries (f, node): Python compares the tuples
\* element by element, a node being the tuple (lat, lng).
EntryLeq(a, b) ==
    \/ a[1] < b[1]
    \/ /\ a[1] = b[1]
       /\ \/ a[2][1] < b[2][1]
          \/ a[2][1] = b[2][1] /\ a[2][2] <= b[2][2]

\* Line 124: heapq.heappop(open_set).
HeapMin(open_set) == CHOOSE e \in open_set : \A o \in open_set : EntryLeq(e, o)

\* A variant of ExploreNeighbours without the test of line 142: every
\* neighbour not yet visited is entered and pushed.
RECURSIVE ExploreNeighboursAlways(_, _, _, _, _)
ExploreNeighboursAlways(edges, current, goal, visited, st) ==
    IF edges = <<>> THEN st
    ELSE LET neighbor == edges[1][1]
             edge_cost == edges[1][2]
             tentative_g == st.g_score[current] + edge_cost
             next == IF neighbor \in visited THEN st
                     ELSE [open_set |-> st.open_set
                                \cup {<<tentative_g + Heuristic(neighbor, goal), neighbor>>},
                           came_from |-> (neighbor :> current) @@ st.came_from,
                           g_score |-> (neighbor :> tentative_g) @@ st.g_score]
         IN ExploreNeighboursAlways(Tail(edges), current, goal, visited, next)

\* Lines 136-147: the loop over the neighbours of current, in the order of
\* its adjacency list.  st holds open_set, came_from and g_score.
RECURSIVE ExploreNeighbours(_, _, _, _, _)
ExploreNeighbours(edges, current, goal, visited, st) ==
    IF edges = <<>> THEN st
    ELSE LET neighbor == edges[1][1]
             edge_cost == edges[1][2]
             tentative_g == st.g_score[current] + edge_cost
             improves == \/ neighbor \notin DOMAIN st.g_score
                         \/ tentative_g < st.g_score[neighbor]
             next == IF neighbor \in visited \/ ~improves THEN st
                     ELSE [open_set |-> st.open_set
                                \cup {<<tentative_g + Heuristic(neighbor, goal), neighbor>>},
                           came_from |-> (neighbor :> current) @@ st.came_from,
                           g_score |-> (neighbor :> tentative_g) @@ st.g_score]
         IN ExploreNeighbours(Tail(edges), current, goal, visited, next)

\* A variant of ReconstructPath without the reverse of line 158.
RECURSIVE ReconstructPathUnreversed(_, _)
ReconstructPathUnreversed(came_from, current) ==
    IF current \in DOMAIN came_from
    THEN <<current>> \o ReconstructPathUnreversed(came_from, came_from[current])
    ELSE <<current>>

\* _reconstruct_path: follow came_from back from current, then reverse.
RECURSIVE ReconstructPath(_, _)
ReconstructPath(came_from, current) ==
    IF current \in DOMAIN came_from
    THEN Append(ReconstructPath(came_from, came_from[current]), current)
    ELSE <<current>>

\* Lines 123-150: the while loop of _astar.
RECURSIVE AstarLoop(_, _, _, _)
AstarLoop(g, goal, visited, st) ==
    IF st.open_set = {} THEN <<>>
    ELSE LET entry == HeapMin(st.open_set)
             current == entry[2]
             popped == [st EXCEPT !.open_set = st.open_set \ {entry}]
         IN IF current \in visited THEN AstarLoop(g, goal, visited, popped)
            ELSE IF current = goal THEN ReconstructPath(st.came_from, current)
            ELSE AstarLoop(g, goal, visited \cup {current},
                           ExploreNeighbours(g.adj[current], current, goal,
                                             visited \cup {current}, popped))

\* _astar(start, goal): lines 110-121 set the search up.
Astar(g, start, goal) ==
    AstarLoop(g, goal, {}, [open_set |-> {<<0, start>>},
                            came_from |-> EmptyDict,
                            g_score |-> (start :> 0)])

\* What _astar returns for find_route: the path its search computes, [] once
\* the open set is empty.
AstarOutcomes(g, start, goal) == {Astar(g, start, goal)}

\* A variant of FindRoute that, where _astar found no path, joins the two
\* nearest nodes all the same.
FindRouteSnapsWhenNoPath(g, path, start_lat, start_lng, end_lat, end_lng) ==
    LET start_node == FindNearestNode(g, start_lat, start_lng)
        end_node == FindNearestNode(g, end_lat, end_lng)
    IN IF start_node = NoNode \/ end_node = NoNode
       THEN << <<start_lng, start_lat>>, <<end_lng, end_lat>> >>
       ELSE << <<start_lng, start_lat>>, <<start_node[2], start_node[1]>>,
               <<end_node[2], end_node[1]>>, <<end_lng, end_lat>> >>

\* Lines 61-84: find_route, given what _astar returned.  Points of the
\* result are GeoJSON [lng, lat].
FindRoute(g, path, start_lat, start_lng, end_lat, end_lng) ==
    IF FindNearestNode(g, start_lat, start_lng) = NoNode
       \/ FindNearestNode(g, end_lat, end_lng) = NoNode
    THEN << <<start_lng, start_lat>>, <<end_lng, end_lat>> >>
    ELSE IF path = <<>>
    THEN << <<start_lng, start_lat>>, <<end_lng, end_lat>> >>
    ELSE << <<start_lng, start_lat>> >>
         \o [i \in 1..Len(path) |-> <<path[i][2], path[i][1]>>]
         \o << <<end_lng, end_lat>> >>

----------------------------------------------------------------------------
(* _generate_fallback_route *)

StraightLine(c) == << <<c.start_lng, c.start_lat>>, <<c.end_lng, c.end_lat>> >>

\* Lines 129-151: the coordinates the try block can leave in route_coords.
\* An empty street list, and an exception of the graph building, give the
\* straight line; otherwise find_route decides.
RouteCoords(sl, c) ==
    IF sl.ways = <<>> THEN {StraightLine(c)}
    ELSE IF ~sl.wellformed THEN {StraightLine(c)}
    ELSE LET g == BuildGraph(sl.ways)
             start_node == FindNearestNode(g, c.start_lat, c.start_lng)
             end_node == FindNearestNode(g, c.end_lat, c.end_lng)
         IN IF g.nodes = <<>>
            THEN {FindRoute(g, <<>>, c.start_lat, c.start_lng, c.end_lat, c.end_lng)}
            ELSE {FindRoute(g, path, c.start_lat, c.start_lng, c.end_lat, c.end_lng) :
                     path \in AstarOutcomes(g, start_node, end_node)}

\* Line 147: the except clause is entered when the street tier raised.
StreetTierRaises(sl) == sl.ways # <<>> /\ ~sl.wellformed

\* Lines 154-159: the length of the route in km.
RECURSIVE TotalDistKm(_)
TotalDistKm(coords) ==
    IF Len(coords) < 2 THEN 0
    ELSE Haversine(coords[1][2], coords[1][1], coords[2][2], coords[2][1])
         + TotalDistKm(Tail(coords))

\* A variant of IsRealRoute that takes the straight line for a street path.
IsRealRouteFromTwoPoints(route_coords) == Len(route_coords) >= 2

\* Line 167
IsRealRoute(route_coords) == Len(route_coords) > 2

\* A variant of FallbackConfidence that keeps full confidence for a street path.
FallbackConfidenceNotReduced(is_real_route) == IF is_real_route THEN 100 ELSE 0

\* Line 182
FallbackConfidence(is_real_route) == IF is_real_route THEN 70 ELSE 0

\* Line 185
FallbackQuality(is_real_route) == IF is_real_route THEN "good" ELSE "unknown"

\* Line 187
FallbackWarnings(is_real_route) ==
    << IF is_real_route
       THEN "OSRM unavailable, using A* street routing"
       ELSE "OSRM unavailable, showing direct line" >>

\* Lines 161-193: the result built around route_coords at 30 km/h.
FallbackResult(route_coords, c) ==
    LET total_dist_km == TotalDistKm(route_coords)
        duration_seconds == (total_dist_km * 3600) \div 30
        duration_minutes == (total_dist_km * 60) \div 30
        is_real_route == IsRealRoute(route_coords)
    IN [code |-> "Fallback",
        routes |-> <<
            [geometry |-> [coordinates |-> route_coords, type |-> "LineString"],
             distance |-> total_dist_km * 1000,
             duration |-> duration_seconds,
             traffic_aware_duration |-> duration_seconds,
             traffic_aware_duration_minutes |-> duration_minutes,
             min_time_minutes |-> (duration_minutes * 9) \div 10,
             max_time_minutes |-> (duration_minutes * 15) \div 10,
             confidence |-> FallbackConfidence(is_real_route),
             average_speed |-> 30,
             average_congestion |-> 0,
             quality |-> FallbackQuality(is_real_route),
             is_recommended |-> TRUE,
             warnings |-> FallbackWarnings(is_real_route)] >>,
        waypoints |-> << [name |-> "Start", location |-> <<c.start_lng, c.start_lat>>],
                         [name |-> "End", location |-> <<c.end_lng, c.end_lat>>] >>]

----------------------------------------------------------------------------
(* The call *)

\* Arguments of the call: start and end on the grid.
Calls ==
    {[start_lat |-> 0, start_lng |-> 0, end_lat |-> 1, end_lng |-> 2],
     [start_lat |-> 2, start_lng |-> 1, end_lat |-> 0, end_lng |-> 2]}

\* The keys of a route as its provider gave it.
RawKeys == {"geometry", "distance", "duration", "legs", "weight"}

RawOf(route) == [k \in DOMAIN route \cap RawKeys |-> route[k]]

\* No component is studied on its own.
UnitsIdle ==
    /\ graph = None
    /\ find = None
    /\ traffic = None
    /\ color = None
    /\ model = None
    /\ prediction = None
    /\ enhance = None
    /\ loader = None
    /\ services = None
    /\ classified = None

Init ==
    /\ pc = "osrm"
    /\ max_retries \in RetrySettings
    /\ call \in Calls
    /\ srv = 1
    /\ att = 0
    /\ base_routes = None
    /\ gh_data = None
    /\ idx = 0
    /\ enhanced_routes = <<>>
    /\ streets = None
    /\ cache = None
    /\ result = None
    /\ log = <<>>
    /\ excs = {}
    /\ enhLog = {}
    /\ UnitsIdle

\* Lines 231-259, one pass of the inner loop body, and lines 51-59.
OsrmRequest ==
    /\ pc = "osrm"
    /\ \E resp \in OsrmResponses :
        LET out == AttemptOutcome(resp)
            step == CASE out = "return" -> AfterReturn(srv, att, max_retries)
                      [] out = "status" -> AfterStatus(srv, att, max_retries)
                      [] OTHER -> AfterException(srv, att, max_retries)
            data == IF out = "return" THEN JsonOf(resp.body) ELSE base_routes
            exc == IF step.returns THEN "no_routes" ELSE "all_servers_failed"
            raises == IF step.returns THEN OsrmUnusable(data) ELSE step.srv > NumServers
        IN /\ log' = log \o << Event("osrm", srv, out = "return") >>
                         \o (IF step.sleep THEN << Event("sleep", srv, TRUE) >> ELSE <<>>)
           /\ base_routes' = data
           /\ srv' = step.srv
           /\ att' = step.att
           /\ pc' = IF raises THEN OuterExcept(exc)
                    ELSE IF step.returns THEN "osrm_enh" ELSE "osrm"
           /\ excs' = IF raises THEN excs \cup {exc} ELSE excs
           /\ idx' = IF step.returns /\ ~raises THEN 1 ELSE idx
    /\ UNCHANGED <<max_retries, call, gh_data, enhanced_routes, streets, cache,
                   result, enhLog>>
    /\ UNCHANGED unitVars

\* Lines 60-82, one pass of the loop body.
OsrmEnhance ==
    /\ pc = "osrm_enh"
    /\ idx <= Len(base_routes.routes)
    /\ \E out \in EnhanceOutcomes :
        LET route == base_routes.routes[idx]
        IN /\ HandlerRaises(route) => out.raises
           /\ enhLog' = IF HandlerRaises(route) THEN {} ELSE enhLog \cup {RawOf(route)}
           /\ IF ~EnhanceRaises(route, out)
              THEN /\ enhanced_routes' = Append(enhanced_routes, Enhanced(route, out, idx = 1))
                   /\ idx' = idx + 1
                   /\ UNCHANGED <<pc, excs, base_routes>>
              ELSE IF HandlerRaises(route)
              THEN /\ pc' = OuterExcept("handler_key_error")
                   /\ excs' = excs \cup {"enhance", "handler_key_error"}
                   /\ enhanced_routes' = <<>>
                   /\ idx' = 0
                   /\ base_routes' = None
              ELSE /\ enhanced_routes' = Append(enhanced_routes, HandlerRoute(route))
                   /\ idx' = idx + 1
                   /\ excs' = excs \cup {"enhance"}
                   /\ UNCHANGED <<pc, base_routes>>
    /\ UNCHANGED <<max_retries, call, srv, att, gh_data, streets, cache,
                   result, log>>
    /\ UNCHANGED unitVars

\* Lines 84-91
OsrmReturn ==
    /\ pc = "osrm_enh"
    /\ idx > Len(base_routes.routes)
    /\ result' = OsrmResult(enhanced_routes, base_routes)
    /\ pc' = "done"
    /\ UNCHANGED <<max_retries, call, srv, att, base_routes, gh_data, idx,
                   enhanced_routes, streets, cache, log, excs, enhLog>>
    /\ UNCHANGED unitVars

\* Lines 97-105
GhRequest ==
    /\ pc = "gh"
    /\ \E resp \in GhResponses :
        LET data == GetRoute(resp)
        IN /\ gh_data' = data
           /\ log' = Append(log, Event("gh", 0, data # None))
           /\ pc' = IF GhUsable(data) THEN "gh_enh" ELSE "fallback"
    /\ idx' = 1
    /\ enhanced_routes' = <<>>
    /\ UNCHANGED <<max_retries, call, srv, att, base_routes, streets, cache,
                   result, excs, enhLog>>
    /\ UNCHANGED unitVars

\* Lines 106-114, one pass of the loop body.
GhEnhance ==
    /\ pc = "gh_enh"
    /\ idx <= Len(gh_data.routes)
    /\ \E out \in EnhanceOutcomes :
        LET route == gh_data.routes[idx]
            failed == GhEnhanceFailed(enhanced_routes, route)
        IN /\ enhLog' = enhLog \cup {RawOf(route)}
           /\ IF ~EnhanceRaises(route, out)
              THEN /\ enhanced_routes' = Append(enhanced_routes, Enhanced(route, out, idx = 1))
                   /\ idx' = idx + 1
                   /\ UNCHANGED <<pc, excs>>
              ELSE /\ enhanced_routes' = failed.routes
                   /\ idx' = IF failed.raise THEN idx ELSE idx + 1
                   /\ pc' = IF failed.raise THEN "fallback" ELSE pc
                   /\ excs' = excs \cup {"gh_enhance"}
    /\ UNCHANGED <<max_retries, call, srv, att, base_routes, gh_data, streets, cache,
                   result, log>>
    /\ UNCHANGED unitVars

\* Lines 116-120
GhReturn ==
    /\ pc = "gh_enh"
    /\ idx > Len(gh_data.routes)
    /\ result' = GhResult(enhanced_routes, gh_data)
    /\ pc' = "done"
    /\ UNCHANGED <<max_retries, call, srv, att, base_routes, gh_data, idx,
                   enhanced_routes, streets, cache, log, excs, enhLog>>
    /\ UNCHANGED unitVars

\* Line 134 with osm_loader.py lines 35-46: get_bishkek_streets().  The
\* cache is class-level state of the process: the call finds it as earlier
\* requests left it.
FallbackLoad ==
    /\ pc = "fallback"
    /\ \E found \in CacheStates, f \in FetchOutcomes :
        IF CacheHit(found)
        THEN /\ streets' = found.data
             /\ cache' = found
             /\ UNCHANGED log
        ELSE /\ streets' = f.streets
             /\ cache' = [data |-> f.streets, valid |-> TRUE]
             /\ log' = Append(log, Event("overpass", 0, f.ok))
    /\ pc' = "fb_route"
    /\ UNCHANGED <<max_retries, call, srv, att, base_routes, gh_data, idx,
                   enhanced_routes, result, excs, enhLog>>
    /\ UNCHANGED unitVars

\* Lines 136-193 (after line 134)
FallbackRoute ==
    /\ pc = "fb_route"
    /\ \E route_coords \in RouteCoords(streets, call) :
        result' = FallbackResult(route_coords, call)
    /\ excs' = IF StreetTierRaises(streets) THEN excs \cup {"street_tier"} ELSE excs
    /\ pc' = "done"
    /\ UNCHANGED <<max_retries, call, srv, att, base_routes, gh_data, idx,
                   enhanced_routes, streets, cache, log, enhLog>>
    /\ UNCHANGED unitVars

Next ==
    \/ OsrmRequest
    \/ OsrmEnhance
    \/ OsrmReturn
    \/ GhRequest
    \/ GhEnhance
    \/ GhReturn
    \/ FallbackLoad
    \/ FallbackRoute

Spec == Init /\ [][Next]_vars

----------------------------------------------------------------------------
(* StreetGraphRouter on its own: a router is built from a street list and
   asked for routes *)

\* Bound: the most streets of a list the router is built from.
MaxWays == 2

GridCoords == 0..2

\* Streets of the study: two three-point streets from <<0, 0>> to <<0, 2>>
\* (one by <<1, 0>>, a longer one by <<2, 2>>), two-point streets that touch
\* them or lie apart, a street that stays in one point and a street with a
\* single vertex.
WayPool ==
    {<< <<0, 0>>, <<1, 0>>, <<0, 2>> >>,
     << <<0, 0>>, <<2, 2>>, <<0, 2>> >>,
     << <<0, 0>>, <<0, 1>> >>,
     << <<0, 1>>, <<0, 2>> >>,
     << <<2, 0>>, <<2, 1>> >>,
     << <<1, 1>>, <<1, 1>> >>,
     << <<1, 2>> >>}

GraphStreets == {StreetList(ws, TRUE) : ws \in SeqsUpTo(WayPool, MaxWays)}

\* No call of calculate_optimal_route is under way.
RouterIdle ==
    /\ max_retries = 1
    /\ call = None
    /\ srv = 1
    /\ att = 0
    /\ base_routes = None
    /\ gh_data = None
    /\ idx = 0
    /\ enhanced_routes = <<>>
    /\ cache = None
    /\ result = None
    /\ log = <<>>
    /\ excs = {}
    /\ enhLog = {}

routerVars == <<max_retries, call, srv, att, base_routes, gh_data, idx,
                enhanced_routes, cache, result, log, excs, enhLog>>

InitGraph ==
    /\ pc = "sg_new"
    /\ streets \in GraphStreets
    /\ RouterIdle
    /\ UnitsIdle

\* StreetGraphRouter(streets): __init__ keeps the list and builds the graph.
NewStreetGraphRouter ==
    /\ pc = "sg_new"
    /\ graph' = BuildGraph(streets.ways)
    /\ pc' = "sg_ready"
    /\ UNCHANGED <<streets, routerVars, find, traffic, color, model, prediction,
                   enhance, loader, services, classified>>

\* find_route(start_lat, start_lng, end_lat, end_lng) with its locals.
FindRouteLocals(g, start_lat, start_lng, end_lat, end_lng) ==
    LET start_node == FindNearestNode(g, start_lat, start_lng)
        end_node == FindNearestNode(g, end_lat, end_lng)
        path == IF start_node = NoNode \/ end_node = NoNode THEN <<>>
                ELSE Astar(g, start_node, end_node)
    IN [start_lat |-> start_lat, start_lng |-> start_lng,
        end_lat |-> end_lat, end_lng |-> end_lng,
        start_node |-> start_node, end_node |-> end_node, path |-> path,
        route_coords |-> FindRoute(g, path, start_lat, start_lng, end_lat, end_lng)]

FindRouteCall ==
    /\ pc = "sg_ready"
    /\ \E start_lat, start_lng, end_lat, end_lng \in GridCoords :
          find' = FindRouteLocals(graph, start_lat, start_lng, end_lat, end_lng)
    /\ pc' = "sg_done"
    /\ UNCHANGED <<streets, routerVars, graph, traffic, color, model, prediction,
                   enhance, loader, services, classified>>

NextGraph ==
    \/ NewStreetGraphRouter
    \/ FindRouteCall

SpecGraph == InitGraph /\ [][NextGraph]_vars

----------------------------------------------------------------------------
(* TrafficManager on its own.  Speeds are counted in tenths of km/h. *)

\* TRAFFIC_LEVELS in the dictionary's order, the labels in Latin letters.
TRAFFIC_LEVELS ==
    << [level |-> "free", min |-> 0, max |-> 30, color |-> "#22c55e", label |-> "Svobodno"],
       [level |-> "light", min |-> 30, max |-> 50, color |-> "#eab308", label |-> "Legkiy"],
       [level |-> "moderate", min |-> 50, max |-> 70, color |-> "#f97316",
        label |-> "Umerennyy"],
       [level |-> "heavy", min |-> 70, max |-> 90, color |-> "#ef4444", label |-> "Plotnyy"],
       [level |-> "jam", min |-> 90, max |-> 100, color |-> "#991b1b", label |-> "Probka"] >>

Hours == 0..23

\* TIME_PATTERNS in tenths; every hour of the day is a key.
TIME_PATTERNS ==
    [h \in Hours |-> IF h < 6 THEN 2
                     ELSE IF h < 9 THEN 15
                     ELSE IF h < 17 THEN 8
                     ELSE IF h < 20 THEN 16
                     ELSE 6]

\* MAJOR_STREETS, in Latin letters.
MAJOR_STREETS ==
    {"Chuy", "Manas", "Zhibek Zholu", "Akhunbaeva", "Sovetskaya",
     "Moskovskaya", "Kievskaya", "7 Aprelya", "Bokonbaeva"}

\* Line 66: a name of the study holds a major name only by being one.
IsMajor(name) == name \in MAJOR_STREETS

\* A variant of GetTrafficLevel with another default than that of line 95.
RECURSIVE GetTrafficLevelOtherDefault(_, _)
GetTrafficLevelOtherDefault(levels, congestion) ==
    IF levels = <<>> THEN "heavy"
    ELSE IF levels[1].min <= congestion /\ congestion < levels[1].max THEN levels[1].level
    ELSE GetTrafficLevelOtherDefault(Tail(levels), congestion)

\* _get_traffic_level: the first level of the table, in its order, whose
\* band holds the congestion; jam when none does.
RECURSIVE GetTrafficLevel(_, _)
GetTrafficLevel(levels, congestion) ==
    IF levels = <<>> THEN "jam"
    ELSE IF levels[1].min <= congestion /\ congestion < levels[1].max THEN levels[1].level
    ELSE GetTrafficLevel(Tail(levels), congestion)

\* cls.TRAFFIC_LEVELS[level]
LevelConfig(level) ==
    TRAFFIC_LEVELS[CHOOSE i \in 1..Len(TRAFFIC_LEVELS) : TRAFFIC_LEVELS[i].level = level]

\* base_speeds.get(highway_type, 40), in km/h.
BaseSpeed(highway_type) ==
    CASE highway_type = "motorway" -> 80
      [] highway_type = "trunk" -> 70
      [] highway_type = "primary" -> 60
      [] highway_type = "secondary" -> 50
      [] highway_type = "tertiary" -> 40
      [] highway_type = "residential" -> 30
      [] OTHER -> 40

\* round(actual_speed, 1) for base_speed * (1 - congestion / 100 * 0.7), in
\* tenths.  Where the exact value lies halfway between two tenths, the
\* floating-point product decides which of them comes out: both can.
RoundedSpeeds(congestion, highway_type) ==
    LET x == BaseSpeed(highway_type) * (1000 - 7 * congestion)
    IN IF x % 100 = 50 THEN {x \div 100, x \div 100 + 1} ELSE {(x + 50) \div 100}

\* A variant of CalculateSpeed without the floor of line 117.
CalculateSpeedNoFloor(congestion, highway_type) == RoundedSpeeds(congestion, highway_type)

\* _calculate_speed: max(10.0, round(actual_speed, 1)).
CalculateSpeed(congestion, highway_type) ==
    {Max(100, r) : r \in RoundedSpeeds(congestion, highway_type)}

Min(a, b) == IF a <= b THEN a ELSE b

\* Lines 60-67: the congestion of one street from the hour and the two
\* random draws.
Congestion(street, hour, base_congestion, boost) ==
    LET congestion == Min(100, (base_congestion * TIME_PATTERNS[hour]) \div 10)
    IN IF IsMajor(street.name) THEN Min(100, congestion + boost) ELSE congestion

\* Lines 76-83: the street with its traffic data.
StreetWithTraffic(street, congestion, average_speed) ==
    [congestion_percentage |-> congestion,
     traffic_level |-> GetTrafficLevel(TRAFFIC_LEVELS, congestion),
     average_speed |-> average_speed,
     color |-> LevelConfig(GetTrafficLevel(TRAFFIC_LEVELS, congestion)).color,
     label |-> LevelConfig(GetTrafficLevel(TRAFFIC_LEVELS, congestion)).label] @@ street

\* Lines 58-85, one pass of the loop body: what it can append for a street.
StreetOutcomes(street, hour) ==
    UNION {{StreetWithTraffic(street, Congestion(street, hour, b, boost), sp) :
               sp \in CalculateSpeed(Congestion(street, hour, b, boost),
                                     Get(street, "highway_type", "tertiary"))} :
              b \in 10..60, boost \in 10..20}

\* generate_traffic_for_streets: the lists it can return.
RECURSIVE GenerateOutcomes(_, _)
GenerateOutcomes(street_list, hour) ==
    IF street_list = <<>> THEN {<<>>}
    ELSE {<<e>> \o rest : e \in StreetOutcomes(street_list[1], hour),
                          rest \in GenerateOutcomes(Tail(street_list), hour)}

\* Streets of the study: a major and a minor name, every road class of the
\* table, a class the table lacks, and a street without highway_type.
TrafficStreets ==
    {[name |-> n, highway_type |-> t] :
        n \in {"Manas", "Tynystanova"},
        t \in {"motorway", "trunk", "primary", "secondary", "tertiary",
               "residential", "service"}}
    \cup {[name |-> n] : n \in {"Manas", "Tynystanova"}}

\* Street lists of the study: the empty list and every list of one street.
TrafficInputs == {<<>>} \cup {<<st>> : st \in TrafficStreets}

InitTraffic ==
    /\ pc = "tm"
    /\ streets = None
    /\ RouterIdle
    /\ UnitsIdle

GenerateTrafficForStreets ==
    /\ pc = "tm"
    /\ \E street_list \in TrafficInputs, current_hour \in Hours :
          traffic' \in GenerateOutcomes(street_list, current_hour)
    /\ pc' = "tm_done"
    /\ UNCHANGED <<streets, routerVars, graph, find, color, model, prediction,
                   enhance, loader, services, classified>>

\* get_traffic_color(congestion)
GetTrafficColor ==
    /\ pc = "tm"
    /\ \E congestion \in 0..100 :
          color' = [congestion |-> congestion,
                    level |-> GetTrafficLevel(TRAFFIC_LEVELS, congestion),
                    color |-> LevelConfig(GetTrafficLevel(TRAFFIC_LEVELS, congestion)).color]
    /\ pc' = "tm_done"
    /\ UNCHANGED <<streets, routerVars, graph, find, traffic, model, prediction,
                   enhance, loader, services, classified>>

NextTraffic ==
    \/ GenerateTrafficForStreets
    \/ GetTrafficColor

SpecTraffic == InitTraffic /\ [][NextTraffic]_vars

----------------------------------------------------------------------------
(* TravelTimePredictor on its own.  Minutes are counted in hundredths inside
   the predictor and in tenths in its answer, speeds in tenths of km/h,
   distances in tenths of km, the confidence in thousandths.  A float is a
   record: a number, or one of the values nan, inf and -inf. *)

\* Bound: the most entries of a traffic list.
MaxTraffic == 2

Num(v) == [kind |-> "num", v |-> v]

NaN == [kind |-> "nan", v |-> 0]

Inf == [kind |-> "inf", v |-> 0]

NegInf == [kind |-> "neginf", v |-> 0]

\* max(1.0, x) on minutes: Python returns x only where x > 1.0 holds, which
\* it does not for nan.
AtLeastOneMinute(x) ==
    IF x.kind = "inf" \/ (x.kind = "num" /\ x.v > 100) THEN x ELSE Num(100)

\* x * (num / den) for a positive factor.
Times2(x, num, den) == IF x.kind = "num" THEN Num((x.v * num) \div den) ELSE x

RECURSIVE SumKey(_, _, _)
SumKey(list, key, default) ==
    IF list = <<>> THEN 0 ELSE Get(list[1], key, default) + SumKey(Tail(list), key, default)

\* The integer part of a square root, by bisection between lo and hi.
RECURSIVE ISqrtIn(_, _, _)
ISqrtIn(n, lo, hi) ==
    IF hi - lo <= 1 THEN lo
    ELSE LET mid == (lo + hi) \div 2
         IN IF mid * mid <= n THEN ISqrtIn(n, mid, hi) ELSE ISqrtIn(n, lo, mid)

ISqrt(n) == ISqrtIn(n, 0, Min(n + 1, 46340))

\* _get_time_of_day_factor, in tenths.
TimeOfDayFactor(hour) ==
    IF 7 <= hour /\ hour < 9 THEN 13
    ELSE IF 17 <= hour /\ hour < 19 THEN 14
    ELSE IF hour >= 23 \/ hour < 6 THEN 8
    ELSE 10

\* _calculate_average_congestion and _calculate_average_speed as the pair
\* of a total and a count: 0.0 and 50.0 for the empty list.
TrafficTotals(tcs) ==
    IF tcs = <<>> THEN [n |-> 1, congestion |-> 0, speed |-> 500]
    ELSE [n |-> Len(tcs),
          congestion |-> SumKey(tcs, "congestion_percentage", 0),
          speed |-> SumKey(tcs, "average_speed", 500)]

\* _heuristic_predict on distance (tenths of km), the totals and the time
\* factor: minutes in hundredths.
HeuristicPredict(distance, tot, time_factor) ==
    LET speed == IF tot.speed > 0 THEN tot.speed ELSE 500 * tot.n
        \* effective_speed in thousandths of km/h, floored at 10 km/h
        effective_speed ==
            Max(10000, (speed * (1000 * tot.n - 7 * tot.congestion))
                           \div (tot.n * tot.n * time_factor))
        time_minutes == (600000 * distance) \div effective_speed
        fixed_delay == 5 * distance
    IN AtLeastOneMinute(Num(time_minutes + fixed_delay))

\* What self.model.predict(features)[0] can do: raise (or hand back what
\* max cannot compare), or return a float.
ModelOutcomes ==
    {[raises |-> TRUE, value |-> NaN]}
    \cup {[raises |-> FALSE, value |-> x] :
             x \in {NaN, Inf, NegInf, Num(0 - 500), Num(0), Num(50), Num(730)}}

\* The outcome named when no model is loaded and none is asked.
NoModelOutcome == [raises |-> FALSE, value |-> NaN]

\* _ml_predict
MlPredict(out, distance, tot, time_factor) ==
    IF out.raises THEN HeuristicPredict(distance, tot, time_factor)
    ELSE AtLeastOneMinute(out.value)

\* Lines 71-72: nan and values <= 0 give way to the time at 40 km/h.
Validated(predicted_time, distance) ==
    IF \/ predicted_time.kind \in {"nan", "neginf"}
       \/ predicted_time.kind = "num" /\ predicted_time.v <= 0
    THEN Num(15 * distance)
    ELSE predicted_time

\* A variant of CalculateConfidence without the lower limit of line 211.
CalculateConfidenceNoFloor(tcs) ==
    IF Len(tcs) < 2 THEN 700
    ELSE LET n == Len(tcs)
             total == SumKey(tcs, "congestion_percentage", 0)
             squares == SumKey([i \in 1..n |->
                                  [sq |-> Get(tcs[i], "congestion_percentage", 0)
                                          * Get(tcs[i], "congestion_percentage", 0)]],
                               "sq", 0)
         IN 1000 - (ISqrt(100 * (n * squares - total * total)) \div n)

\* _calculate_confidence, in thousandths: 0.7 for fewer than two entries,
\* else max(0.5, 1 - std / 100) with the standard deviation of the
\* congestions.
CalculateConfidence(tcs) ==
    IF Len(tcs) < 2 THEN 700
    ELSE LET n == Len(tcs)
             total == SumKey(tcs, "congestion_percentage", 0)
             squares == SumKey([i \in 1..n |->
                                  [sq |-> Get(tcs[i], "congestion_percentage", 0)
                                          * Get(tcs[i], "congestion_percentage", 0)]],
                               "sq", 0)
             std10 == ISqrt(100 * (n * squares - total * total)) \div n
         IN Max(500, 1000 - std10)

\* _calculate_time_range
CalculateTimeRange(predicted_time, confidence) ==
    LET range_factor == 1000 - confidence
    IN [min |-> AtLeastOneMinute(Times2(predicted_time, 10000 - 3 * range_factor, 10000)),
        max |-> Times2(predicted_time, 10000 + 5 * range_factor, 10000)]

\* safe_float(val, 1) of minutes: 0.0 for nan and the infinities, else the
\* rounded value, here in tenths.
SafeFloat(x) == IF x.kind # "num" THEN 0 ELSE (x.v + 5) \div 10

\* safe_int(predicted_time * 60): seconds.
SafeInt(x) == IF x.kind # "num" THEN 0 ELSE (6 * x.v + 5) \div 10

\* predict_travel_time
PredictTravelTime(m, out, distance, tcs, hour) ==
    LET tot == TrafficTotals(tcs)
        time_factor == TimeOfDayFactor(hour)
        predicted_time ==
            Validated(IF m # None THEN MlPredict(out, distance, tot, time_factor)
                      ELSE HeuristicPredict(distance, tot, time_factor), distance)
        confidence == CalculateConfidence(tcs)
        time_range == CalculateTimeRange(predicted_time, confidence)
        base_time == Num(12 * distance)
    IN [predicted_time_minutes |-> SafeFloat(predicted_time),
        predicted_time_seconds |-> SafeInt(predicted_time),
        min_time_minutes |-> SafeFloat(time_range.min),
        max_time_minutes |-> SafeFloat(time_range.max),
        confidence |-> confidence,
        average_speed_kmh |-> IF tot.speed > 0 THEN tot.speed \div tot.n ELSE 400,
        average_congestion_percent |-> (10 * tot.congestion) \div tot.n,
        time_of_day_factor |-> time_factor,
        breakdown |-> [base_time |-> SafeFloat(base_time),
                       traffic_delay |->
                           IF predicted_time.kind = "num"
                           THEN SafeFloat(Num(predicted_time.v - base_time.v))
                           ELSE 0,
                       distance_km |-> distance]]

\* Entries of a traffic list: free, busy and jammed streets, an entry with
\* speed 0, an entry with a congestion beyond 100 and an entry without the
\* two keys.
TrafficConditions ==
    {[congestion_percentage |-> 0, average_speed |-> 600],
     [congestion_percentage |-> 300, average_speed |-> 100],
     [congestion_percentage |-> 40, average_speed |-> 350],
     [congestion_percentage |-> 100, average_speed |-> 100],
     [congestion_percentage |-> 100, average_speed |-> 0],
     [name |-> "Manas"]}

\* Distances in tenths of km.
Distances == {0, 5, 30, 120}

\* self.model once it is loaded.
LoadedModel == [loaded |-> TRUE]

\* After __init__: load_model has found a model or left self.model None.
InitPredict ==
    /\ pc = "tp"
    /\ streets = None
    /\ RouterIdle
    /\ graph = None
    /\ find = None
    /\ traffic = None
    /\ color = None
    /\ model \in {None, LoadedModel}
    /\ prediction = None
    /\ enhance = None
    /\ loader = None
    /\ services = None
    /\ classified = None

PredictTravelTimeCall ==
    /\ pc = "tp"
    /\ \E distance \in Distances, tcs \in SeqsUpTo(TrafficConditions, MaxTraffic),
          hour \in Hours,
          out \in (IF model = None THEN {NoModelOutcome} ELSE ModelOutcomes) :
          prediction' = [distance_km |-> distance, traffic_conditions |-> tcs,
                         hour |-> hour, model_out |-> out,
                         answer |-> PredictTravelTime(model, out, distance, tcs, hour)]
    /\ pc' = "tp_done"
    /\ UNCHANGED <<streets, routerVars, graph, find, traffic, color, model,
                   enhance, loader, services, classified>>

NextPredict == PredictTravelTimeCall

SpecPredict == InitPredict /\ [][NextPredict]_vars

----------------------------------------------------------------------------
(* TrafficAwareRouter._enhance_route_with_traffic and its helpers

   Points lie on a grid of 250 m steps around Bishkek, far from the point
   (0, 0); _haversine_distance takes them in half steps and answers in
   metres.  A route's distance is in metres, its duration in seconds; the
   predictor is handed the distance in tenths of km. *)

\* Bound: the most samples of a traffic list handed to a helper on its own.
MaxSamples == 6

\* _haversine_distance(lat1, lon1, lat2, lon2), arguments in half steps.
HaversineDistance(lat1, lon1, lat2, lon2) ==
    125 * (Abs(lat2 - lat1) + Abs(lon2 - lon1))

\* Lines 369-380: the loop of _sample_route_points over GeoJSON [lon, lat].
RECURSIVE SampleLoop(_, _, _, _, _)
SampleLoop(coordinates, i, total_distance, last_sample_distance, points) ==
    IF i > Len(coordinates) - 1 THEN points
    ELSE LET lon1 == coordinates[i][1]
             lat1 == coordinates[i][2]
             lon2 == coordinates[i + 1][1]
             lat2 == coordinates[i + 1][2]
             total == total_distance
                        + HaversineDistance(2 * lat1, 2 * lon1, 2 * lat2, 2 * lon2)
         IN IF total - last_sample_distance >= 500
            THEN SampleLoop(coordinates, i + 1, total, total,
                            Append(points, <<lat2, lon2>>))
            ELSE SampleLoop(coordinates, i + 1, total, last_sample_distance, points)

\* _sample_route_points(coordinates, 500): points (lat, lon), the start and
\* the end always among them.
SampleRoutePoints(coordinates) ==
    IF coordinates = <<>> THEN <<>>
    ELSE << <<coordinates[1][2], coordinates[1][1]>> >>
         \o SampleLoop(coordinates, 1, 0, 0, <<>>)
         \o << <<coordinates[Len(coordinates)][2], coordinates[Len(coordinates)][1]>> >>

\* Lines 399-408: the loop of _find_nearest_traffic from entry i on; the
\* midpoint of an entry without start or end is (0, 0); min_distance is
\* None while it is float('inf').
RECURSIVE NearestLoop(_, _, _, _, _)
NearestLoop(point, traffic_data, i, nearest, min_distance) ==
    IF i > Len(traffic_data) THEN nearest
    ELSE LET t == traffic_data[i]
             start == Get(t, "start", <<0, 0>>)
             end == Get(t, "end", <<0, 0>>)
             distance == HaversineDistance(2 * point[1], 2 * point[2],
                                           start[1] + end[1], start[2] + end[2])
         IN IF (min_distance = None \/ distance < min_distance.d) /\ distance <= 500
            THEN NearestLoop(point, traffic_data, i + 1, t, [d |-> distance])
            ELSE NearestLoop(point, traffic_data, i + 1, nearest, min_distance)

\* _find_nearest_traffic(point, traffic_data): an entry or None.
FindNearestTraffic(point, traffic_data) == NearestLoop(point, traffic_data, 1, None, None)

\* Lines 347-352: the default entry, 45 km/h in tenths.
DefaultTraffic ==
    [congestion_percentage |-> 20, average_speed |-> 450, traffic_level |-> "light"]

\* Lines 340-344: the entries nearest to the sample points, in their order.
RECURSIVE MatchedLoop(_, _)
MatchedLoop(sample_points, traffic_data) ==
    IF sample_points = <<>> THEN <<>>
    ELSE LET nearest_traffic == FindNearestTraffic(sample_points[1], traffic_data)
         IN (IF nearest_traffic # None /\ DOMAIN nearest_traffic # {}
             THEN <<nearest_traffic>> ELSE <<>>)
            \o MatchedLoop(Tail(sample_points), traffic_data)

\* _match_traffic_to_route
MatchTrafficToRoute(route_coordinates, traffic_data) ==
    IF route_coordinates = <<>> \/ traffic_data = <<>> THEN <<>>
    ELSE LET matched_traffic ==
                 MatchedLoop(SampleRoutePoints(route_coordinates), traffic_data)
         IN IF matched_traffic = <<>> THEN <<DefaultTraffic>> ELSE matched_traffic

\* avg_congestion < k, the average of line 444.
AvgCongestionBelow(traffic_conditions, k) ==
    SumKey(traffic_conditions, "congestion_percentage", 0) < k * Len(traffic_conditions)

\* delay_per_km < k with line 445: traffic_delay in seconds over
\* max(distance_km, 0.1) and 60, the distance in tenths of km.
DelayPerKmBelow(traffic_delay, distance_km, k) ==
    traffic_delay < 6 * k * Max(distance_km, 1)

\* A variant of CalculateRouteQuality in which either measure suffices.
CalculateRouteQualityEither(traffic_conditions, traffic_delay, distance_km) ==
    IF traffic_conditions = <<>> THEN "good"
    ELSE IF AvgCongestionBelow(traffic_conditions, 25)
            \/ DelayPerKmBelow(traffic_delay, distance_km, 1) THEN "excellent"
    ELSE IF AvgCongestionBelow(traffic_conditions, 50)
            \/ DelayPerKmBelow(traffic_delay, distance_km, 2) THEN "good"
    ELSE IF AvgCongestionBelow(traffic_conditions, 75)
            \/ DelayPerKmBelow(traffic_delay, distance_km, 4) THEN "fair"
    ELSE "poor"

\* _calculate_route_quality
CalculateRouteQuality(traffic_conditions, traffic_delay, distance_km) ==
    IF traffic_conditions = <<>> THEN "good"
    ELSE IF AvgCongestionBelow(traffic_conditions, 25)
            /\ DelayPerKmBelow(traffic_delay, distance_km, 1) THEN "excellent"
    ELSE IF AvgCongestionBelow(traffic_conditions, 50)
            /\ DelayPerKmBelow(traffic_delay, distance_km, 2) THEN "good"
    ELSE IF AvgCongestionBelow(traffic_conditions, 75)
            /\ DelayPerKmBelow(traffic_delay, distance_km, 4) THEN "fair"
    ELSE "poor"

\* Lines 470-481: the loop of _create_traffic_segments from entry i on;
\* current_level is None before the first entry.
RECURSIVE SegmentsLoop(_, _, _, _, _)
SegmentsLoop(traffic_conditions, i, segments, current_level, current_count) ==
    IF i > Len(traffic_conditions)
    THEN [segments |-> segments, current_level |-> current_level,
          current_count |-> current_count]
    ELSE LET level == Get(traffic_conditions[i], "traffic_level", "unknown")
         IN IF current_level = None \/ level # current_level.level
            THEN SegmentsLoop(traffic_conditions, i + 1,
                     IF current_level # None
                     THEN Append(segments, [level |-> current_level.level,
                                            count |-> current_count])
                     ELSE segments,
                     [level |-> level], 1)
            ELSE SegmentsLoop(traffic_conditions, i + 1, segments,
                              current_level, current_count + 1)

\* A variant of CreateTrafficSegments without lines 483-488: the last group
\* is not added.
CreateTrafficSegmentsDropsLast(traffic_conditions) ==
    IF traffic_conditions = <<>> THEN <<>>
    ELSE SegmentsLoop(traffic_conditions, 1, <<>>, None, 0).segments

\* _create_traffic_segments
CreateTrafficSegments(traffic_conditions) ==
    IF traffic_conditions = <<>> THEN <<>>
    ELSE LET st == SegmentsLoop(traffic_conditions, 1, <<>>, None, 0)
         IN IF st.current_level # None
            THEN Append(st.segments, [level |-> st.current_level.level,
                                      count |-> st.current_count])
            ELSE st.segments

\* round(seconds / 60, 1) in tenths of minutes; where the quotient lies
\* midway between two tenths the float decides, and both are admitted.
RoundedMinutes(seconds) ==
    LET lower == (10 * seconds) \div 60
        rest == (10 * seconds) % 60
    IN IF rest = 30 THEN {lower, lower + 1}
       ELSE IF rest < 30 THEN {lower} ELSE {lower + 1}

\* Lines 272-299: the locals of _enhance_route_with_traffic up to quality.
EnhanceLocals(route, traffic_data, m, out, hour) ==
    LET geometry == Get(route, "geometry", EmptyDict)
        coordinates == Get(geometry, "coordinates", <<>>)
        matched_traffic == MatchTrafficToRoute(coordinates, traffic_data)
        distance_km == route.distance \div 100
        predicted == PredictTravelTime(m, out, distance_km, matched_traffic, hour)
        base_duration == route.duration
        traffic_duration == predicted.predicted_time_seconds
        traffic_delay == traffic_duration - base_duration
    IN [coordinates |-> coordinates,
        matched_traffic |-> matched_traffic,
        distance_km |-> distance_km,
        prediction |-> predicted,
        base_duration |-> base_duration,
        traffic_duration |-> traffic_duration,
        traffic_delay |-> traffic_delay,
        quality |-> CalculateRouteQuality(matched_traffic, traffic_delay, distance_km)]

\* Lines 302-321: the enhanced routes {**route, ...} the locals allow.
EnhancedRoutes(route, l, is_primary) ==
    {[traffic_aware_duration |-> l.traffic_duration,
      traffic_aware_duration_minutes |-> l.prediction.predicted_time_minutes,
      base_duration |-> l.base_duration,
      base_duration_minutes |-> base_minutes,
      traffic_delay_seconds |-> Max(0, l.traffic_delay),
      traffic_delay_minutes |-> delay_minutes,
      min_time_minutes |-> l.prediction.min_time_minutes,
      max_time_minutes |-> l.prediction.max_time_minutes,
      confidence |-> l.prediction.confidence,
      average_speed |-> l.prediction.average_speed_kmh,
      average_congestion |-> l.prediction.average_congestion_percent,
      quality |-> l.quality,
      is_recommended |-> (is_primary /\ l.quality \in {"excellent", "good"}),
      traffic_segments |-> CreateTrafficSegments(l.matched_traffic),
      prediction_breakdown |-> l.prediction.breakdown] @@ route :
        base_minutes \in RoundedMinutes(l.base_duration),
        delay_minutes \in RoundedMinutes(Max(0, l.traffic_delay))}

\* Geometries of a route, GeoJSON [lon, lat]: none, one along the first
\* street, one near the second, one far from both.
EnhanceGeometries ==
    {<<>>,
     << <<10, 10>>, <<11, 10>>, <<13, 10>> >>,
     << <<10, 13>>, <<10, 13>> >>,
     << <<14, 14>>, <<14, 13>> >>}

\* Routes handed to the enhancer: with and without a geometry.
EnhanceRawRoutes ==
    {[geometry |-> [coordinates |-> cs, type |-> "LineString"],
      distance |-> dist, duration |-> d] :
        cs \in EnhanceGeometries, dist \in {500, 3000}, d \in {60, 600}}
    \cup {[distance |-> 500, duration |-> 60]}

\* Entries of traffic_data: two with start and end [lat, lng], and a street
\* as generate_traffic_for_streets hands it out, which has coords instead.
EnhanceTrafficEntries ==
    {[start |-> <<10, 10>>, end |-> <<10, 12>>, congestion_percentage |-> 10,
      average_speed |-> 550, traffic_level |-> "free"],
     [start |-> <<12, 10>>, end |-> <<13, 11>>, congestion_percentage |-> 60,
      average_speed |-> 250, traffic_level |-> "heavy"],
     [name |-> "Manas", coords |-> << <<10, 10>>, <<10, 12>> >>,
      congestion_percentage |-> 80, average_speed |-> 150, traffic_level |-> "jam"]}

\* Hours of datetime.now(): one from each band of _get_time_of_day_factor.
EnhanceHours == {3, 8, 12, 18}

\* Entries of a traffic list that only their congestion matters for.
QualityConditions ==
    {[congestion_percentage |-> c] : c \in {10, 30, 60, 80}}
    \cup {[traffic_level |-> "light"]}

\* Delays in seconds around the limits of the four distances.
QualityDelays ==
    {0 - 60, 0, 5, 6, 11, 12, 23, 24, 29, 30, 59, 60, 119, 120, 179, 180,
     359, 360, 719, 720, 1439, 1440, 2879, 2880}

\* Entries of a traffic list that only their level matters for; the last
\* has none.
SegmentConditions ==
    {[traffic_level |-> "free"], [traffic_level |-> "light"],
     [congestion_percentage |-> 20]}

\* The predictor of get_predictor() has loaded a model or has none.
InitEnhance ==
    /\ pc = "te"
    /\ streets = None
    /\ RouterIdle
    /\ graph = None
    /\ find = None
    /\ traffic = None
    /\ color = None
    /\ model \in {None, LoadedModel}
    /\ prediction = None
    /\ enhance = None
    /\ loader = None
    /\ services = None
    /\ classified = None

\* _enhance_route_with_traffic(route, traffic_data, is_primary)
EnhanceRouteWithTraffic ==
    /\ pc = "te"
    /\ \E route \in EnhanceRawRoutes,
          traffic_data \in SeqsUpTo(EnhanceTrafficEntries, MaxTraffic),
          is_primary \in BOOLEAN, hour \in EnhanceHours,
          out \in (IF model = None THEN {NoModelOutcome} ELSE ModelOutcomes) :
          LET l == EnhanceLocals(route, traffic_data, model, out, hour)
          IN \E enhanced \in EnhancedRoutes(route, l, is_primary) :
                enhance' = [op |-> "enhance", route |-> route,
                            traffic_data |-> traffic_data,
                            is_primary |-> is_primary, hour |-> hour,
                            model_out |-> out, locals |-> l, answer |-> enhanced]
    /\ pc' = "te_done"
    /\ UNCHANGED <<streets, routerVars, graph, find, traffic, color, model,
                   prediction, loader, services, classified>>

\* _calculate_route_quality(traffic_conditions, traffic_delay, distance_km)
CalculateRouteQualityCall ==
    /\ pc = "te"
    /\ \E traffic_conditions \in SeqsUpTo(QualityConditions, MaxTraffic),
          traffic_delay \in QualityDelays, distance_km \in Distances :
          enhance' = [op |-> "quality", traffic_conditions |-> traffic_conditions,
                      traffic_delay |-> traffic_delay, distance_km |-> distance_km,
                      answer |-> CalculateRouteQuality(traffic_conditions,
                                                       traffic_delay, distance_km)]
    /\ pc' = "te_done"
    /\ UNCHANGED <<streets, routerVars, graph, find, traffic, color, model,
                   prediction, loader, services, classified>>

\* _create_traffic_segments(traffic_conditions)
CreateTrafficSegmentsCall ==
    /\ pc = "te"
    /\ \E traffic_conditions \in SeqsUpTo(SegmentConditions, MaxSamples) :
          enhance' = [op |-> "segments", traffic_conditions |-> traffic_conditions,
                      answer |-> CreateTrafficSegments(traffic_conditions)]
    /\ pc' = "te_done"
    /\ UNCHANGED <<streets, routerVars, graph, find, traffic, color, model,
                   prediction, loader, services, classified>>

NextEnhance ==
    \/ EnhanceRouteWithTraffic
    \/ CalculateRouteQualityCall
    \/ CreateTrafficSegmentsCall

SpecEnhance == InitEnhance /\ [][NextEnhance]_vars

----------------------------------------------------------------------------
(* OSMStreetLoader on its own, with the callers of get_bishkek_streets.

   Lists are objects: loader.heap[k] is a list, and a reference [ref |-> k]
   is what _cache, a local or a return value holds; a list nothing refers to
   any longer is gone.  The clock counts hours and advances in steps of 12. *)

\* Bound: the most elements of an Overpass payload.
MaxElements == 2

\* Bound: the last hour of the clock.
MaxClock == 48

\* _cache_duration = timedelta(hours=24)
CacheDuration == 24

Ref(k) == [ref |-> k]

\* A datetime: the hour.
At(hour) == [at |-> hour]

\* _get_road_width(highway_type)
GetRoadWidth(highway_type) ==
    CASE highway_type = "motorway" -> 8
      [] highway_type = "trunk" -> 7
      [] highway_type = "primary" -> 6
      [] highway_type = "secondary" -> 5
      [] highway_type = "tertiary" -> 4
      [] highway_type = "residential" -> 3
      [] OTHER -> 4

\* _get_fallback_streets(): the built-in list, here its first and its last
\* street.
BuiltInStreets ==
    << [name |-> "Zhibek Zholu", coords |-> << <<5, 0>>, <<5, 3>> >>,
        highway_type |-> "primary", width |-> 6],
       [name |-> "Lva Tolstogo", coords |-> << <<2, 0>>, <<2, 3>> >>,
        highway_type |-> "tertiary", width |-> 4] >>

\* Elements of an Overpass payload: a named way, a way without a name, a
\* node, and a way one of whose geometry nodes has no lon.
NamedWay ==
    [type |-> "way", id |-> 1, tags |-> [name |-> "Manas", highway |-> "primary"],
     geometry |-> << [lat |-> 0, lon |-> 0], [lat |-> 0, lon |-> 1] >>]

UnnamedWay ==
    [type |-> "way", id |-> 2, tags |-> [highway |-> "residential"],
     geometry |-> << [lat |-> 1, lon |-> 0], [lat |-> 1, lon |-> 1] >>]

NodeElement == [type |-> "node", id |-> 3]

BrokenWay ==
    [type |-> "way", id |-> 4, tags |-> [name |-> "Manas"],
     geometry |-> << [lat |-> 0, lon |-> 0], [lat |-> 1] >>]

OverpassElements == {NamedWay, UnnamedWay, NodeElement, BrokenWay}

\* Lines 93-103: the element is passed over.
ElementSkipped(element) ==
    \/ Get(element, "type", "") # "way"
    \/ Len(Get(element, "geometry", <<>>)) < 2

\* Line 106: node['lat'] or node['lon'] raises KeyError.
ElementRaises(element) ==
    /\ ~ElementSkipped(element)
    /\ \E i \in 1..Len(element.geometry) :
          {"lat", "lon"} \ DOMAIN element.geometry[i] # {}

\* Lines 97-118: the street appended for a way.
StreetOf(element) ==
    LET tags == Get(element, "tags", EmptyDict)
        highway_type == Get(tags, "highway", "tertiary")
    IN [name |-> Get(tags, "name",
                     Get(tags, "name:ru", Get(tags, "name:ky", "Unnamed Street"))),
        coords |-> [i \in 1..Len(element.geometry) |->
                       <<element.geometry[i].lat, element.geometry[i].lon>>],
        highway_type |-> highway_type,
        width |-> GetRoadWidth(highway_type),
        osm_id |-> Get(element, "id", None)]

\* Outcomes of requests.post, raise_for_status and response.json(): the
\* request raised, the status is an error, the body is no JSON, the JSON is
\* no object, or it is an object with or without elements.
OverpassResponses ==
    {[kind |-> k, elements |-> <<>>] :
        k \in {"transport_error", "timeout", "status", "invalid_json",
               "not_object", "no_elements_key"}}
    \cup {[kind |-> "elements", elements |-> es] :
             es \in SeqsUpTo(OverpassElements, MaxElements)}

\* The responses two concurrent callers are studied with.
FewResponses ==
    {[kind |-> "timeout", elements |-> <<>>],
     [kind |-> "elements", elements |-> <<NamedWay>>],
     [kind |-> "elements", elements |-> <<NamedWay, BrokenWay>>]}

\* Lines 72-78 and data.get of line 92: what fails before the first element.
RequestFailed(resp) ==
    resp.kind \in {"transport_error", "timeout", "status", "invalid_json", "not_object"}

\* A variant of FetchCatches whose except clause names the errors of the
\* request only.
FetchCatchesRequestErrors(failure) == failure \in {"transport_error", "timeout", "status"}

\* Line 82: except Exception catches whatever the try block raised.
FetchCatches(failure) == TRUE

\* A list object: the elements it is made from, the streets appended so far
\* and the elements the loop of line 92 has still to see.
ListObject(elements, street_list, remaining) ==
    [elements |-> elements, streets |-> street_list, remaining |-> remaining,
     builtin |-> FALSE]

\* Line 85: the list of _get_fallback_streets().
FallbackObject ==
    [elements |-> <<>>, streets |-> BuiltInStreets, remaining |-> <<>>, builtin |-> TRUE]

\* A variant of IsCacheValid that takes the built-in list, cached after a
\* failed fetch, for no valid cache.
IsCacheValidUnlessBuiltIn(l) ==
    /\ l.cache # None
    /\ l.cache_timestamp # None
    /\ l.now - l.cache_timestamp.at < CacheDuration
    /\ ~l.heap[l.cache.ref].builtin

\* A variant of IsCacheValid that takes a cache of exactly 24 hours for valid.
IsCacheValidInclusive(l) ==
    /\ l.cache # None
    /\ l.cache_timestamp # None
    /\ l.now - l.cache_timestamp.at <= CacheDuration

\* _is_cache_valid()
IsCacheValid(l) ==
    /\ l.cache # None
    /\ l.cache_timestamp # None
    /\ l.now - l.cache_timestamp.at < CacheDuration

\* A variant of StreetsAfterGenerate in which the traffic keys are written
\* into the street records themselves.
StreetsAfterGenerateInPlace(street_list, generated) == generated

\* Lines 58-87 of traffic_manager.py: the list handed in, after the call;
\* every street is copied into a new dictionary ({**street, ...}) and the
\* copies are appended to a new list.
StreetsAfterGenerate(street_list, generated) == street_list

\* Lines 22-51 of street_graph_router.py: the list handed in, after the graph
\* is built; the loop reads coords and copies every point into a tuple.
StreetsAfterBuildGraph(street_list) == street_list

\* A caller of get_bishkek_streets: where it is, its argument, its local
\* streets, what it returned, whether it sent a request and how that failed.
\* before is what its check of line 36 found: _cache, whether that is the
\* built-in list, _cache_timestamp and the hour.
IdleCaller ==
    [pc |-> "idle", force_refresh |-> FALSE, streets |-> None, result |-> None,
     fetched |-> FALSE, failure |-> "", before |-> None]

\* The class after import: no cache, no caller yet, a slot for the cached
\* list and one for each caller's.
LoaderAfterImport(callers) ==
    [cache |-> None, cache_timestamp |-> None, now |-> 0,
     heap |-> [k \in 1..(Cardinality(callers) + 1) |-> None],
     callers |-> [t \in callers |-> IdleCaller]]

\* The lists something refers to.
Referenced(l) ==
    {r.ref : r \in ({l.cache} \cup {l.callers[t].streets : t \in DOMAIN l.callers}
                              \cup {l.callers[t].result : t \in DOMAIN l.callers})
                   \ {None}}

\* The lists nothing refers to are gone.
Collect(l) ==
    [l EXCEPT !.heap = [k \in DOMAIN l.heap |->
                           IF k \in Referenced(l) THEN l.heap[k] ELSE None]]

\* Where a new list is put.
FreeSlot(l) == CHOOSE k \in DOMAIN l.heap :
                   /\ l.heap[k] = None
                   /\ \A j \in DOMAIN l.heap : l.heap[j] = None => k <= j

\* generate_traffic_for_streets for one hour and one pair of draws of
\* lines 60 and 67: the lists it can return.
RECURSIVE GenerateWithDraws(_, _, _, _)
GenerateWithDraws(street_list, hour, base_congestion, boost) ==
    IF street_list = <<>> THEN {<<>>}
    ELSE LET street == street_list[1]
             congestion == Congestion(street, hour, base_congestion, boost)
         IN {<<StreetWithTraffic(street, congestion, sp)>> \o rest :
                sp \in CalculateSpeed(congestion, Get(street, "highway_type", "tertiary")),
                rest \in GenerateWithDraws(Tail(street_list), hour, base_congestion, boost)}

\* The other variables of the model, which the loader leaves alone.
loaderOthers ==
    <<pc, streets, routerVars, graph, find, traffic, color, model, prediction, enhance,
      services, classified>>

\* The module is imported: no cache, no caller yet.
InitLoader ==
    /\ pc = "ld"
    /\ streets = None
    /\ RouterIdle
    /\ graph = None
    /\ find = None
    /\ traffic = None
    /\ color = None
    /\ model = None
    /\ prediction = None
    /\ enhance = None
    /\ loader = LoaderAfterImport({1})
    /\ services = None
    /\ classified = None

\* The same with two request threads.
InitLoaderConcurrent ==
    /\ pc = "ld"
    /\ streets = None
    /\ RouterIdle
    /\ graph = None
    /\ find = None
    /\ traffic = None
    /\ color = None
    /\ model = None
    /\ prediction = None
    /\ enhance = None
    /\ loader = LoaderAfterImport({1, 2})
    /\ services = None
    /\ classified = None

\* Time passes, up to the hour last.
Tick(last) ==
    /\ pc = "ld"
    /\ loader.now + 12 <= last
    /\ loader' = [loader EXCEPT !.now = @ + 12]
    /\ UNCHANGED loaderOthers

\* get_bishkek_streets(force_refresh) is called.
CallGetBishkekStreets(t) ==
    /\ pc = "ld"
    /\ loader.callers[t].pc = "idle"
    /\ \E force_refresh \in BOOLEAN :
          loader' = [loader EXCEPT !.callers[t] =
                        [IdleCaller EXCEPT !.pc = "l36", !.force_refresh = force_refresh]]
    /\ UNCHANGED loaderOthers

\* Line 36: not force_refresh and cls._is_cache_valid().  Its reads of
\* _cache and _cache_timestamp see what one moment holds, since neither is
\* ever set back to None.
CheckCache(t) ==
    /\ pc = "ld"
    /\ loader.callers[t].pc = "l36"
    /\ loader' = [loader EXCEPT
          !.callers[t].pc = IF ~loader.callers[t].force_refresh /\ IsCacheValid(loader)
                            THEN "l37" ELSE "l40",
          !.callers[t].before = [cache |-> loader.cache,
                                 builtin |-> IF loader.cache = None THEN FALSE
                                             ELSE loader.heap[loader.cache.ref].builtin,
                                 cache_timestamp |-> loader.cache_timestamp,
                                 now |-> loader.now]]
    /\ UNCHANGED loaderOthers

\* Line 37: return cls._cache
ReturnCache(t) ==
    /\ pc = "ld"
    /\ loader.callers[t].pc = "l37"
    /\ loader' = [loader EXCEPT !.callers[t].pc = "done",
                                !.callers[t].result = loader.cache]
    /\ UNCHANGED loaderOthers

\* Line 40 up to the loop of _process_overpass_data: the request of lines
\* 72-78, and the except clause where it failed.
FetchFromOverpass(t, responses) ==
    /\ pc = "ld"
    /\ loader.callers[t].pc = "l40"
    /\ \E resp \in responses :
          LET k == FreeSlot(loader)
          IN IF RequestFailed(resp)
             THEN IF FetchCatches(resp.kind)
                  THEN loader' = [loader EXCEPT
                           !.heap[k] = FallbackObject,
                           !.callers[t].streets = Ref(k),
                           !.callers[t].fetched = TRUE,
                           !.callers[t].failure = resp.kind,
                           !.callers[t].pc = "l43"]
                  ELSE loader' = [loader EXCEPT
                           !.callers[t].fetched = TRUE,
                           !.callers[t].failure = resp.kind,
                           !.callers[t].pc = "raised"]
             ELSE loader' = [loader EXCEPT
                      !.heap[k] = ListObject(resp.elements, <<>>, resp.elements),
                      !.callers[t].streets = Ref(k),
                      !.callers[t].fetched = TRUE,
                      !.callers[t].pc = IF resp.elements = <<>> THEN "l43" ELSE "process"]
    /\ UNCHANGED loaderOthers

\* Lines 92-118, one pass of the loop body on the list under construction,
\* and the except clause where the element made it raise: the list so far
\* is dropped for the built-in one.
ProcessElement(t) ==
    /\ pc = "ld"
    /\ loader.callers[t].pc = "process"
    /\ LET k == loader.callers[t].streets.ref
           obj == loader.heap[k]
           element == Head(obj.remaining)
       IN IF ElementRaises(element)
          THEN IF FetchCatches("bad_element")
               THEN loader' = [loader EXCEPT
                        !.heap[k] = FallbackObject,
                        !.callers[t].failure = "bad_element",
                        !.callers[t].pc = "l43"]
               ELSE loader' = Collect([loader EXCEPT
                        !.callers[t].streets = None,
                        !.callers[t].failure = "bad_element",
                        !.callers[t].pc = "raised"])
          ELSE loader' = [loader EXCEPT
                   !.heap[k] = ListObject(obj.elements,
                                   IF ElementSkipped(element) THEN obj.streets
                                   ELSE Append(obj.streets, StreetOf(element)),
                                   Tail(obj.remaining)),
                   !.callers[t].pc = IF Tail(obj.remaining) = <<>> THEN "l43"
                                     ELSE "process"]
    /\ UNCHANGED loaderOthers

\* Line 43: cls._cache = streets
StoreCache(t) ==
    /\ pc = "ld"
    /\ loader.callers[t].pc = "l43"
    /\ loader' = Collect([loader EXCEPT !.cache = loader.callers[t].streets,
                                        !.callers[t].pc = "l44"])
    /\ UNCHANGED loaderOthers

\* Line 44: cls._cache_timestamp = datetime.now()
StoreTimestamp(t) ==
    /\ pc = "ld"
    /\ loader.callers[t].pc = "l44"
    /\ loader' = [loader EXCEPT !.cache_timestamp = At(loader.now),
                                !.callers[t].pc = "l46"]
    /\ UNCHANGED loaderOthers

\* Line 46: return streets
ReturnStreets(t) ==
    /\ pc = "ld"
    /\ loader.callers[t].pc = "l46"
    /\ loader' = [loader EXCEPT !.callers[t].pc = "done",
                                !.callers[t].result = loader.callers[t].streets]
    /\ UNCHANGED loaderOthers

\* The caller hands the list to generate_traffic_for_streets, as the views
\* do, and is done with it.
GenerateTrafficFromList(t) ==
    /\ pc = "ld"
    /\ loader.callers[t].pc = "done"
    /\ LET k == loader.callers[t].result.ref
       IN \E hour \in {8}, base_congestion \in {10, 60}, boost \in {10} :
             \E generated \in GenerateWithDraws(loader.heap[k].streets, hour,
                                                base_congestion, boost) :
                loader' = Collect([loader EXCEPT
                    !.heap[k].streets = StreetsAfterGenerate(@, generated),
                    !.callers[t] = IdleCaller])
    /\ UNCHANGED loaderOthers

\* The caller hands the list to StreetGraphRouter, as
\* _generate_fallback_route does, and is done with it.
BuildGraphFromList(t) ==
    /\ pc = "ld"
    /\ loader.callers[t].pc = "done"
    /\ LET k == loader.callers[t].result.ref
       IN loader' = Collect([loader EXCEPT
              !.heap[k].streets = StreetsAfterBuildGraph(@),
              !.callers[t] = IdleCaller])
    /\ UNCHANGED loaderOthers

\* One caller after the other.
NextLoader ==
    \/ Tick(MaxClock)
    \/ CallGetBishkekStreets(1)
    \/ CheckCache(1)
    \/ ReturnCache(1)
    \/ FetchFromOverpass(1, OverpassResponses)
    \/ ProcessElement(1)
    \/ StoreCache(1)
    \/ StoreTimestamp(1)
    \/ ReturnStreets(1)
    \/ GenerateTrafficFromList(1)
    \/ BuildGraphFromList(1)

SpecLoader == InitLoader /\ [][NextLoader]_vars

\* Two callers, every interleaving of their statements.
NextLoaderConcurrent ==
    \/ Tick(CacheDuration)
    \/ \E t \in DOMAIN loader.callers : CallGetBishkekStreets(t)
    \/ \E t \in DOMAIN loader.callers : CheckCache(t)
    \/ \E t \in DOMAIN loader.callers : ReturnCache(t)
    \/ \E t \in DOMAIN loader.callers : FetchFromOverpass(t, FewResponses)
    \/ \E t \in DOMAIN loader.callers : ProcessElement(t)
    \/ \E t \in DOMAIN loader.callers : StoreCache(t)
    \/ \E t \in DOMAIN loader.callers : StoreTimestamp(t)
    \/ \E t \in DOMAIN loader.callers : ReturnStreets(t)
    \/ \E t \in DOMAIN loader.callers : GenerateTrafficFromList(t)
    \/ \E t \in DOMAIN loader.callers : BuildGraphFromList(t)

SpecLoaderConcurrent == InitLoaderConcurrent /\ [][NextLoaderConcurrent]_vars

----------------------------------------------------------------------------
(* StreetGraphRouter._astar, one pass of its while loop at a time *)

\* Streets of the search: those of WayPool and a ring of four nodes, on
\* which a node is reached first by the longer way round.
AstarWays ==
    WayPool \cup {<< <<0, 1>>, <<0, 0>>, <<1, 0>>, <<0, 2>>, <<0, 1>> >>}

AstarStreets == {StreetList(ws, TRUE) : ws \in SeqsUpTo(AstarWays, MaxWays)}

\* Lines 110-121: the locals of _astar(start, goal) before the loop.  popped
\* lists the entries taken from the heap, expanded the nodes entered into
\* visited, pushed the entries made in g_score after the first with the
\* score they replaced.
AstarLocals(start, goal) ==
    [start |-> start, goal |-> goal,
     open_set |-> {<<0, start>>}, came_from |-> EmptyDict, g_score |-> (start :> 0),
     visited |-> {}, popped |-> <<>>, expanded |-> <<>>, pushed |-> {},
     returned |-> FALSE, path |-> <<>>]

\* The entries of g_score that differ between two states of the search.
Entered(before, after) ==
    {[node |-> n, g |-> after.g_score[n],
      was |-> IF n \in DOMAIN before.g_score THEN [g |-> before.g_score[n]] ELSE None] :
        n \in {x \in DOMAIN after.g_score :
                  x \notin DOMAIN before.g_score
                  \/ after.g_score[x] # before.g_score[x]
                  \/ <<after.g_score[x] + Heuristic(x, after.goal), x>>
                        \in (after.open_set \ before.open_set)}}

\* The other variables of the model, which the search leaves alone.
astarOthers ==
    <<streets, routerVars, graph, traffic, color, model, prediction, enhance, loader,
      services, classified>>

\* A router built from streets is asked for a path between two of its nodes.
InitAstar ==
    /\ pc = "as_loop"
    /\ streets \in AstarStreets
    /\ RouterIdle
    /\ graph = BuildGraph(streets.ways)
    /\ find \in {AstarLocals(start, goal) : start, goal \in NodeSet(graph)}
    /\ traffic = None
    /\ color = None
    /\ model = None
    /\ prediction = None
    /\ enhance = None
    /\ loader = None
    /\ services = None
    /\ classified = None

\* Lines 124-127: the entry popped is of a node visited before.
AstarSkip ==
    /\ pc = "as_loop"
    /\ find.open_set # {}
    /\ LET entry == HeapMin(find.open_set)
       IN /\ entry[2] \in find.visited
          /\ find' = [find EXCEPT !.open_set = @ \ {entry},
                                  !.popped = Append(@, entry)]
    /\ UNCHANGED pc
    /\ UNCHANGED astarOthers

\* Lines 124-133: the entry popped is of the goal.
AstarGoal ==
    /\ pc = "as_loop"
    /\ find.open_set # {}
    /\ LET entry == HeapMin(find.open_set)
           current == entry[2]
       IN /\ current \notin find.visited
          /\ current = find.goal
          /\ find' = [find EXCEPT !.open_set = @ \ {entry},
                                  !.popped = Append(@, entry),
                                  !.visited = @ \cup {current},
                                  !.expanded = Append(@, current),
                                  !.returned = TRUE,
                                  !.path = ReconstructPath(find.came_from, current)]
    /\ pc' = "as_done"
    /\ UNCHANGED astarOthers

\* Lines 124-147: the entry popped is of another node, whose neighbours are
\* gone through.
AstarExpand ==
    /\ pc = "as_loop"
    /\ find.open_set # {}
    /\ LET entry == HeapMin(find.open_set)
           current == entry[2]
           before == [open_set |-> find.open_set \ {entry},
                      came_from |-> find.came_from, g_score |-> find.g_score,
                      goal |-> find.goal]
           st == ExploreNeighbours(graph.adj[current], current, find.goal,
                                   find.visited \cup {current},
                                   [open_set |-> before.open_set,
                                    came_from |-> before.came_from,
                                    g_score |-> before.g_score])
       IN /\ current \notin find.visited
          /\ current # find.goal
          /\ find' = [find EXCEPT !.open_set = st.open_set,
                                  !.came_from = st.came_from,
                                  !.g_score = st.g_score,
                                  !.popped = Append(@, entry),
                                  !.visited = @ \cup {current},
                                  !.expanded = Append(@, current),
                                  !.pushed = @ \cup Entered(before,
                                                 [open_set |-> st.open_set,
                                                  g_score |-> st.g_score,
                                                  goal |-> find.goal])]
    /\ UNCHANGED pc
    /\ UNCHANGED astarOthers

\* Lines 123 and 150: the heap is empty, return [].
AstarExhausted ==
    /\ pc = "as_loop"
    /\ find.open_set = {}
    /\ find' = [find EXCEPT !.returned = TRUE, !.path = <<>>]
    /\ pc' = "as_done"
    /\ UNCHANGED astarOthers

NextAstar ==
    \/ AstarSkip
    \/ AstarGoal
    \/ AstarExpand
    \/ AstarExhausted

\* The loop goes on while the thread runs.
SpecAstar == InitAstar /\ [][NextAstar]_vars /\ WF_vars(NextAstar)

----------------------------------------------------------------------------
(* get_router, get_predictor and get_graphhopper, called from the request
   threads of the server.  The three accessors are the same code over three
   module globals; an instance is known by the number of the constructor
   call that made it. *)

\* The services with an accessor.
ServiceNames == {"router", "predictor", "graphhopper"}

\* The request threads.
Threads == {1, 2}

Instance(n) == [instance |-> n]

\* A thread outside the accessors.
IdleThread == [pc |-> "idle", svc |-> "", made |-> None]

\* The modules after import: the globals are None.
ServicesAfterImport ==
    [global |-> [svc \in ServiceNames |-> None],
     constructed |-> [svc \in ServiceNames |-> 0],
     returned |-> [svc \in ServiceNames |-> {}],
     threads |-> [t \in Threads |-> IdleThread]]

\* if _router_instance is None (lines 499, 302 and 107 of the three modules)
InstanceIsNone(sv, svc) == sv.global[svc] = None

\* The other variables of the model, which the accessors leave alone.
servicesOthers ==
    <<pc, streets, routerVars, graph, find, traffic, color, model, prediction, enhance,
      loader, classified>>

InitServices ==
    /\ pc = "sv"
    /\ streets = None
    /\ RouterIdle
    /\ graph = None
    /\ find = None
    /\ traffic = None
    /\ color = None
    /\ model = None
    /\ prediction = None
    /\ enhance = None
    /\ loader = None
    /\ services = ServicesAfterImport
    /\ classified = None

\* A request thread calls get_router(), get_predictor() or get_graphhopper().
CallAccessor(t) ==
    /\ pc = "sv"
    /\ services.threads[t].pc = "idle"
    /\ \E svc \in ServiceNames :
          services' = [services EXCEPT !.threads[t] = [IdleThread EXCEPT !.pc = "test",
                                                                         !.svc = svc]]
    /\ UNCHANGED servicesOthers

\* The test of the global against None.
TestInstance(t) ==
    /\ pc = "sv"
    /\ services.threads[t].pc = "test"
    /\ LET svc == services.threads[t].svc
       IN IF InstanceIsNone(services, svc)
          THEN services' = [services EXCEPT !.threads[t].pc = "construct"]
          ELSE services' = [services EXCEPT !.threads[t].pc = "return"]
    /\ UNCHANGED servicesOthers

\* The constructor call on the right-hand side of the assignment.
ConstructInstance(t) ==
    /\ pc = "sv"
    /\ services.threads[t].pc = "construct"
    /\ LET svc == services.threads[t].svc
       IN services' = [services EXCEPT
              !.constructed[svc] = @ + 1,
              !.threads[t].made = Instance(services.constructed[svc] + 1),
              !.threads[t].pc = "assign"]
    /\ UNCHANGED servicesOthers

\* The assignment to the global.
AssignInstance(t) ==
    /\ pc = "sv"
    /\ services.threads[t].pc = "assign"
    /\ LET svc == services.threads[t].svc
       IN services' = [services EXCEPT
              !.global[svc] = services.threads[t].made,
              !.threads[t].made = None,
              !.threads[t].pc = "return"]
    /\ UNCHANGED servicesOthers

\* return _router_instance: the global is read again.
ReturnInstance(t) ==
    /\ pc = "sv"
    /\ services.threads[t].pc = "return"
    /\ LET svc == services.threads[t].svc
       IN services' = [services EXCEPT
              !.returned[svc] = @ \cup {services.global[svc]},
              !.threads[t] = IdleThread]
    /\ UNCHANGED servicesOthers

NextServices ==
    \/ \E t \in Threads : CallAccessor(t)
    \/ \E t \in Threads : TestInstance(t)
    \/ \E t \in Threads : ConstructInstance(t)
    \/ \E t \in Threads : AssignInstance(t)
    \/ \E t \in Threads : ReturnInstance(t)

SpecServices == InitServices /\ [][NextServices]_vars

----------------------------------------------------------------------------
(* The three classifications of a congestion: TrafficManager's
   _get_traffic_level, TrafficData.update_traffic_level on a row, and one
   pass of the loop of TrafficDataViewSet.generate on an entry of
   MOCK_STREETS.  Speeds are counted in tenths of km/h. *)

\* random.randint(0, 100), and the range of the field congestion_percentage.
CongestionRange == 0..100

\* A variant of LevelOfRow whose first test is "<= 30".
LevelOfRowInclusive(congestion_percentage) ==
    IF congestion_percentage <= 30 THEN "free"
    ELSE IF congestion_percentage < 50 THEN "light"
    ELSE IF congestion_percentage < 70 THEN "moderate"
    ELSE IF congestion_percentage < 90 THEN "heavy"
    ELSE "jam"

\* The if/elif chain of update_traffic_level.
LevelOfRow(congestion_percentage) ==
    IF congestion_percentage < 30 THEN "free"
    ELSE IF congestion_percentage < 50 THEN "light"
    ELSE IF congestion_percentage < 70 THEN "moderate"
    ELSE IF congestion_percentage < 90 THEN "heavy"
    ELSE "jam"

\* The if/elif chain of generate.
LevelOfMockStreet(congestion) ==
    IF congestion < 30 THEN "free"
    ELSE IF congestion < 50 THEN "light"
    ELSE IF congestion < 70 THEN "moderate"
    ELSE IF congestion < 90 THEN "heavy"
    ELSE "jam"

\* A TrafficData row with its defaults but for the congestion, an entry of
\* MOCK_STREETS as the module defines it, and no call of
\* _get_traffic_level yet.
ClassifiedAtStart(congestion) ==
    [congestion |-> congestion,
     manager |-> "",
     row |-> [congestion_percentage |-> congestion, traffic_level |-> "free",
              average_speed |-> 500, saved |-> FALSE],
     street |-> [congestion_percentage |-> 0, traffic_level |-> "free",
                 average_speed |-> 600, generated |-> FALSE]]

\* The other variables of the model, which the classifications leave alone.
classifiedOthers ==
    <<pc, streets, routerVars, graph, find, traffic, color, model, prediction, enhance,
      loader, services>>

InitLevels ==
    /\ pc = "lv"
    /\ streets = None
    /\ RouterIdle
    /\ graph = None
    /\ find = None
    /\ traffic = None
    /\ color = None
    /\ model = None
    /\ prediction = None
    /\ enhance = None
    /\ loader = None
    /\ services = None
    /\ classified \in {ClassifiedAtStart(congestion) : congestion \in CongestionRange}

\* TrafficManager._get_traffic_level(congestion)
CallGetTrafficLevel ==
    /\ pc = "lv"
    /\ classified.manager = ""
    /\ classified' = [classified EXCEPT
                         !.manager = GetTrafficLevel(TRAFFIC_LEVELS, classified.congestion)]
    /\ UNCHANGED classifiedOthers

\* row.update_traffic_level(): the level is set and the row saved.
UpdateTrafficLevel ==
    /\ pc = "lv"
    /\ ~classified.row.saved
    /\ classified' = [classified EXCEPT
                         !.row.traffic_level = LevelOfRow(classified.row.congestion_percentage),
                         !.row.saved = TRUE]
    /\ UNCHANGED classifiedOthers

\* One pass of the loop of generate: the draw, the speed and the level of
\* one entry of MOCK_STREETS.
GenerateMockStreet ==
    /\ pc = "lv"
    /\ ~classified.street.generated
    /\ \E congestion \in CongestionRange :
          classified' = [classified EXCEPT
                            !.street = [congestion_percentage |-> congestion,
                                        traffic_level |-> LevelOfMockStreet(congestion),
                                        average_speed |-> Max(100, 600 - 5 * congestion),
                                        generated |-> TRUE]]
    /\ UNCHANGED classifiedOthers

NextLevels ==
    \/ CallGetTrafficLevel
    \/ UpdateTrafficLevel
    \/ GenerateMockStreet

SpecLevels == InitLevels /\ [][NextLevels]_vars

----------------------------------------------------------------------------
(* Properties of one call *)

Done == pc = "done"

EventsOf(e) == SelectSeq(log, LAMBDA x : x.ev = e)

RequestsTo(s) == SelectSeq(log, LAMBDA x : x.ev = "osrm" /\ x.srv = s)

PrimaryRaised == excs \cap {"all_servers_failed", "no_routes", "handler_key_error"} # {}

HasDuration(r) == "traffic_aware_duration" \in DOMAIN r

\* The graph built from the streets holds a path between the nodes nearest
\* to the call's start and end.
PathExists(sl, c) ==
    /\ sl.ways # <<>>
    /\ sl.wellformed
    /\ LET g == BuildGraph(sl.ways)
       IN /\ g.nodes # <<>>
          /\ SimplePaths(g, FindNearestNode(g, c.start_lat, c.start_lng),
                            FindNearestNode(g, c.end_lat, c.end_lng)) # {}

\* C1: calculate_optimal_route never propagates an exception: whatever the
\* remote calls, the street loading, the A* search and the enhancement do,
\* the call goes on until it returns a dictionary with a code and a list
\* of routes.
C1_NeverPropagates ==
    /\ pc \in {"osrm", "osrm_enh", "gh", "gh_enh", "fallback", "fb_route", "done"}
    /\ Done => /\ {"code", "routes"} \subseteq DOMAIN result
               /\ result.code \in {"Ok", "Fallback"}
               /\ DOMAIN result.routes = 1..Len(result.routes)

\* A call that returned although the primary tier raised inside its loop's
\* handler, GraphHopper gave nothing and the street tier raised as well.
C1_Witness ==
    /\ Done
    /\ {"handler_key_error", "street_tier"} \subseteq excs
    /\ gh_data = None

\* C2: every result returned holds at least one route, for every provider
\* outcome, payloads with zero routes included.
C2_AtLeastOneRoute == Done => Len(result.routes) >= 1

\* C3: in every result returned, whichever tier produced it, the routes are
\* in non-decreasing order of traffic_aware_duration (neighbours that both
\* carry the key are compared).
C3_SortedByDuration ==
    Done => \A i \in 1..(Len(result.routes) - 1) :
                (HasDuration(result.routes[i]) /\ HasDuration(result.routes[i + 1])) =>
                    result.routes[i].traffic_aware_duration
                        <= result.routes[i + 1].traffic_aware_duration

\* Every request to an OSRM endpoint and the GraphHopper request failed.
AllRemoteFailed ==
    /\ \A i \in 1..Len(log) : log[i].ev \in {"osrm", "gh"} => ~log[i].ok
    /\ EventsOf("gh") # <<>>

\* C4: if every attempt on every OSRM endpoint and the GraphHopper request
\* fail, the result has code Fallback and exactly one route, whose
\* confidence is at most 70 and which carries a warning string.
C4_Failover ==
    (Done /\ AllRemoteFailed) =>
        /\ result.code = "Fallback"
        /\ Len(result.routes) = 1
        /\ result.routes[1].confidence <= 70
        /\ "warnings" \in DOMAIN result.routes[1]
        /\ Len(result.routes[1].warnings) >= 1

\* All remote requests failed and the fallback found a path along streets.
C4_Witness ==
    /\ Done
    /\ AllRemoteFailed
    /\ Len(EventsOf("osrm")) >= NumServers
    /\ result.code = "Fallback"
    /\ result.routes[1].confidence = 70

\* C5: the tiers run in a fixed order and are never revisited: GraphHopper
\* is requested only after the primary tier ended without returning a
\* result, at most once, and the local fallback runs only after GraphHopper
\* yielded no routes.
C5_TierOrder ==
    /\ \A i, j \in 1..Len(log) :
          (i < j /\ log[i].ev \in {"gh", "overpass"}) => log[j].ev = "overpass"
    /\ Len(EventsOf("gh")) <= 1
    /\ Len(EventsOf("overpass")) <= 1
    /\ EventsOf("gh") # <<>> =>
          /\ PrimaryRaised
          /\ pc \in {"gh_enh", "fallback", "fb_route", "done"}
    /\ pc \in {"osrm", "osrm_enh"} => EventsOf("gh") = <<>>
    /\ (pc \in {"fallback", "fb_route"}
        \/ EventsOf("overpass") # <<>>
        \/ (Done /\ result.code = "Fallback")) =>
          /\ EventsOf("gh") # <<>>
          /\ ~GhUsable(gh_data)

\* The fallback answered after an OSRM endpoint returned a payload without
\* routes and GraphHopper answered with no path.
C5_Witness ==
    /\ Done
    /\ result.code = "Fallback"
    /\ \E i \in 1..Len(log) : log[i].ev = "osrm" /\ log[i].ok
    /\ gh_data # None

\* C6: _get_osrm_routes requests the endpoints in list order and returns
\* the payload of the earliest-listed endpoint that succeeds; after a
\* success it issues no further request.
C6_FirstSuccessWins ==
    LET reqs == EventsOf("osrm")
    IN /\ reqs # <<>> => reqs[1].srv = 1
       /\ \A i \in 1..(Len(reqs) - 1) :
             /\ reqs[i + 1].srv \in {reqs[i].srv, reqs[i].srv + 1}
             /\ ~reqs[i].ok
       /\ pc = "osrm_enh" =>
             /\ reqs # <<>>
             /\ reqs[Len(reqs)].ok
             /\ reqs[Len(reqs)].srv = srv
             /\ base_routes # None
             /\ ~OsrmUnusable(base_routes)
       /\ (pc = "osrm" /\ reqs # <<>>) => ~reqs[Len(reqs)].ok

\* The second endpoint's payload is used after the first endpoint failed.
C6_Witness ==
    LET reqs == EventsOf("osrm")
    IN /\ pc = "osrm_enh"
       /\ Len(reqs) >= 2
       /\ reqs[Len(reqs)].srv = 2
       /\ base_routes.routes # <<>>

\* C7: a failed request to a primary endpoint never ends the chain: every
\* later endpoint is still requested until one succeeds, and no endpoint
\* receives more than max_retries requests.
C7_SoftFailures ==
    LET reqs == EventsOf("osrm")
        succeeded == \E i \in 1..Len(reqs) : reqs[i].ok
    IN /\ \A s \in 1..NumServers : Len(RequestsTo(s)) <= max_retries
       /\ \A i \in 1..Len(reqs) : \A s \in 1..(reqs[i].srv - 1) : RequestsTo(s) # <<>>
       /\ (pc # "osrm" /\ ~succeeded) => \A s \in 1..NumServers : RequestsTo(s) # <<>>
       /\ (pc = "osrm" /\ reqs # <<>>) =>
             \/ reqs[Len(reqs)].srv = srv /\ att > 0 /\ att < max_retries
             \/ reqs[Len(reqs)].srv + 1 = srv /\ att = 0 /\ srv <= NumServers

\* With two attempts allowed: the first endpoint raised twice, the second
\* answered with a status other than 200 and was left after one attempt,
\* and the third endpoint was still requested and succeeded.
C7_Witness ==
    /\ max_retries = 2
    /\ Len(RequestsTo(1)) = 2
    /\ Len(RequestsTo(2)) = 1
    /\ Len(RequestsTo(3)) = 1
    /\ RequestsTo(3)[1].ok

\* C8: one call makes at most NumServers * max_retries primary requests and
\* one secondary request, and these are its only network requests.
C8_OnlyProviderRequests ==
    /\ Len(EventsOf("osrm")) <= NumServers * max_retries
    /\ Len(EventsOf("gh")) <= 1
    /\ \A i \in 1..Len(log) : log[i].ev \in {"osrm", "gh", "sleep"}

\* C9: in a Fallback result the single route has confidence 0 and the
\* two-point geometry [start, end] exactly when there was no usable street
\* data, the graph was empty or A* found no path, and confidence 70 exactly
\* when A* found a path; a warning is attached in both cases.
C9_FallbackConfidence ==
    (Done /\ result.code = "Fallback") =>
        LET r == result.routes[1]
        IN /\ Len(result.routes) = 1
           /\ (r.confidence = 0 /\ r.geometry.coordinates = StraightLine(call))
                  <=> ~PathExists(streets, call)
           /\ r.confidence = 70 <=> PathExists(streets, call)
           /\ r.confidence = 70 => Len(r.geometry.coordinates) > 2
           /\ Len(r.warnings) = 1

\* Streets were loaded and a graph built, but A* found no path.
C9_Witness ==
    /\ Done
    /\ result.code = "Fallback"
    /\ streets.ways # <<>>
    /\ streets.wellformed
    /\ result.routes[1].confidence = 0

\* C10: every route of a result was handed to _enhance_route_with_traffic
\* before it was added, except the two-point straight line.
C10_EveryRouteEnhanced ==
    Done => \A i \in 1..Len(result.routes) :
                \/ /\ result.code = "Fallback"
                   /\ result.routes[i].geometry.coordinates = StraightLine(call)
                \/ RawOf(result.routes[i]) \in enhLog

\* The route's quality is excellent or good.
GoodQuality(r) == "quality" \in DOMAIN r /\ r.quality \in {"excellent", "good"}

\* How often a list holds a route.
Copies(routes, r) == Cardinality({i \in 1..Len(routes) : routes[i] = r})

\* C20: a route is flagged is_recommended if and only if it was the
\* provider's first route and its quality is excellent or good; the flag is
\* there before the sort, and the sort hands every route on as it was.
\* Routes without the key, which an enhancement that raised leaves behind,
\* are passed over.
C20_RecommendedFlag ==
    /\ (pc \in {"osrm_enh", "gh_enh"} \/ (Done /\ result.code = "Ok")) =>
          \A i \in 1..Len(enhanced_routes) :
              "is_recommended" \in DOMAIN enhanced_routes[i] =>
                  (enhanced_routes[i].is_recommended
                      <=> (i = 1 /\ GoodQuality(enhanced_routes[i])))
    /\ (Done /\ result.code = "Ok") =>
          /\ Len(result.routes) = Len(enhanced_routes)
          /\ \A i \in 1..Len(enhanced_routes) :
                Copies(result.routes, enhanced_routes[i])
                    = Copies(enhanced_routes, enhanced_routes[i])
    /\ (Done /\ result.code = "Fallback") =>
          \A i \in 1..Len(result.routes) :
              "is_recommended" \in DOMAIN result.routes[i] =>
                  (result.routes[i].is_recommended
                      <=> (i = 1 /\ GoodQuality(result.routes[i])))

\* C21: every route of every result has a quality that is one of excellent,
\* good, fair, poor.  Routes that carry no quality at all are passed over.
C21_QualityEnum ==
    Done => \A i \in 1..Len(result.routes) :
                "quality" \in DOMAIN result.routes[i] =>
                    result.routes[i].quality \in Qualities

\* The traffic fields of an enhanced route.
TrafficFields ==
    {"traffic_aware_duration", "min_time_minutes", "max_time_minutes",
     "confidence", "average_speed", "average_congestion", "quality",
     "is_recommended", "traffic_segments"}

\* C29: every route of every result carries the same set of traffic fields,
\* also when the enhancement of that route raised.
C29_SameTrafficFields ==
    Done => \A i \in 1..Len(result.routes) :
                TrafficFields \subseteq DOMAIN result.routes[i]

----------------------------------------------------------------------------
(* Properties of StreetGraphRouter *)

\* The pairs of consecutive vertices of the streets with two or more
\* vertices, read off the street list.
ConsecutivePairs(ways) ==
    UNION {{<<ways[k][i], ways[k][i + 1]>> : i \in 1..(Len(ways[k]) - 1)} :
              k \in {j \in 1..Len(ways) : Len(ways[j]) >= 2}}

\* The entries <<neighbour, weight>> a node's list holds.
Entries(g, n) == {g.adj[n][i] : i \in 1..Len(g.adj[n])}

\* How often a node's list holds an entry.
Times(g, n, entry) == Cardinality({i \in 1..Len(g.adj[n]) : g.adj[n][i] = entry})

\* Least weights of walks from a set of <<node, weight>> pairs, one more
\* edge allowed, and their fixpoint: the least total weight from start to
\* every node that can be reached.
OneMoreEdge(g, D) ==
    LET cand == D \cup UNION {{<<e[1], p[2] + e[2]>> : e \in Entries(g, p[1])} : p \in D}
    IN {c \in cand : \A c2 \in cand : c2[1] = c[1] => c[2] <= c2[2]}

RECURSIVE LeastWeights(_, _)
LeastWeights(g, D) ==
    IF OneMoreEdge(g, D) = D THEN D ELSE LeastWeights(g, OneMoreEdge(g, D))

Connected(g, start, goal) == \E c \in LeastWeights(g, {<<start, 0>>}) : c[1] = goal

MinWeight(g, start, goal) ==
    (CHOOSE c \in LeastWeights(g, {<<start, 0>>}) : c[1] = goal)[2]

\* A sequence of nodes in which every node lists the next as a neighbour.
IsPath(g, p) ==
    /\ p # <<>>
    /\ \A i \in 1..Len(p) : p[i] \in DOMAIN g.adj
    /\ \A i \in 1..(Len(p) - 1) : \E e \in Entries(g, p[i]) : e[1] = p[i + 1]

\* The total weight of a path, every step by its lightest edge.
RECURSIVE PathWeight(_, _)
PathWeight(g, p) ==
    IF Len(p) < 2 THEN 0
    ELSE LET ws == {e[2] : e \in {x \in Entries(g, p[1]) : x[1] = p[2]}}
         IN (CHOOSE w \in ws : \A v \in ws : w <= v) + PathWeight(g, Tail(p))

Found == pc = "sg_done"

\* C11: for the graph _build_graph built and two nodes of one connected
\* component, _astar returns a path from the one to the other whose total
\* edge weight is the least over all paths between them.
C11_AstarOptimal ==
    (Found /\ find.start_node # NoNode
           /\ Connected(graph, find.start_node, find.end_node)) =>
        /\ IsPath(graph, find.path)
        /\ find.path[1] = find.start_node
        /\ find.path[Len(find.path)] = find.end_node
        /\ PathWeight(graph, find.path)
              = MinWeight(graph, find.start_node, find.end_node)

\* A search between the ends of two streets of different length: the path
\* found has three nodes and weight 20 while a path of weight 30 exists.
C11_Witness ==
    /\ Found
    /\ find.start_node = <<0, 0>>
    /\ find.end_node = <<0, 2>>
    /\ Len(find.path) = 3
    /\ PathWeight(graph, find.path) = 20
    /\ IsPath(graph, << <<0, 0>>, <<2, 2>>, <<0, 2>> >>)

\* C12: on a graph without nodes, which is what a street list without a
\* street of two or more vertices gives, find_route returns exactly
\* [start, end].
C12_EmptyGraphStraightLine ==
    (Found /\ \A k \in 1..Len(streets.ways) : Len(streets.ways[k]) < 2) =>
        /\ graph.nodes = <<>>
        /\ find.route_coords = StraightLine(find)

\* A router built from single-vertex streets only was asked for a route
\* between two different points.
C12_Witness ==
    /\ Found
    /\ streets.ways # <<>>
    /\ graph.nodes = <<>>
    /\ find.start_lat # find.end_lat
    /\ Len(find.route_coords) = 2

\* C13: when the nodes nearest to start and end lie in different connected
\* components, _astar returns no path and find_route returns exactly
\* [start, end].
C13_DisconnectedStraightLine ==
    (Found /\ find.start_node # NoNode
           /\ ~Connected(graph, find.start_node, find.end_node)) =>
        /\ find.path = <<>>
        /\ find.route_coords = StraightLine(find)

\* A search from a street to a street that lies apart from it.
C13_Witness ==
    /\ Found
    /\ find.start_node = <<0, 0>>
    /\ find.end_node = <<2, 1>>
    /\ find.path = <<>>

\* C14: when A* succeeds, find_route returns the caller's start, the node
\* path from the node nearest to start to the node nearest to end, every
\* step along an edge, and the caller's end; the result begins at the
\* caller's start and ends at the caller's end in every branch.
C14_RouteShape ==
    Found =>
        LET rc == find.route_coords
            lnglat(n) == <<n[2], n[1]>>
        IN /\ rc[1] = <<find.start_lng, find.start_lat>>
           /\ rc[Len(rc)] = <<find.end_lng, find.end_lat>>
           /\ find.path # <<>> =>
                 /\ Len(rc) = Len(find.path) + 2
                 /\ \A i \in 1..Len(find.path) : rc[i + 1] = lnglat(find.path[i])
                 /\ find.path[1] = FindNearestNode(graph, find.start_lat, find.start_lng)
                 /\ find.path[Len(find.path)]
                       = FindNearestNode(graph, find.end_lat, find.end_lng)
                 /\ IsPath(graph, find.path)

\* A route of three nodes between two points that are no nodes themselves.
C14_Witness ==
    /\ Found
    /\ Len(find.path) = 3
    /\ <<find.start_lat, find.start_lng>> # find.path[1]
    /\ <<find.end_lat, find.end_lng>> # find.path[3]
    /\ find.path[1] # find.path[3]

\* C15: the graph is symmetric and non-negative: the two vertices of every
\* consecutive pair list each other with one weight >= 0, equal coordinates
\* are one node, and every edge comes from a consecutive pair.
C15_GraphSymmetric ==
    graph # None =>
        LET pairs == ConsecutivePairs(streets.ways)
        IN /\ DOMAIN graph.adj = NodeSet(graph)
           /\ NodeSet(graph) = {pr[1] : pr \in pairs} \cup {pr[2] : pr \in pairs}
           /\ \A i, j \in 1..Len(graph.nodes) : i # j => graph.nodes[i] # graph.nodes[j]
           /\ \A pr \in pairs : \E e \in Entries(graph, pr[1]) :
                 /\ e[1] = pr[2]
                 /\ <<pr[1], e[2]>> \in Entries(graph, pr[2])
           /\ \A a \in NodeSet(graph) : \A e \in Entries(graph, a) :
                 /\ e[2] >= 0
                 /\ e[1] \in NodeSet(graph)
                 /\ Times(graph, e[1], <<a, e[2]>>) = Times(graph, a, e)
                 /\ <<a, e[1]>> \in pairs \/ <<e[1], a>> \in pairs

\* Two streets that meet in a vertex: the graph has fewer nodes than the
\* streets have vertices, and the shared node has the neighbours of both.
C15_Witness ==
    /\ graph # None
    /\ Len(streets.ways) = 2
    /\ streets.ways[1] # streets.ways[2]
    /\ Len(graph.nodes) < Len(streets.ways[1]) + Len(streets.ways[2])
    /\ \E a \in NodeSet(graph) :
          /\ \E i \in 1..Len(streets.ways[1]) : streets.ways[1][i] = a
          /\ \E i \in 1..Len(streets.ways[2]) : streets.ways[2][i] = a
          /\ Cardinality({e[1] : e \in Entries(graph, a)}) >= 2

----------------------------------------------------------------------------
(* Properties of TrafficManager *)

\* The level the fixed boundaries 30, 50, 70 and 90 give a congestion.
LevelByBoundaries(c) ==
    IF c < 30 THEN "free"
    ELSE IF c < 50 THEN "light"
    ELSE IF c < 70 THEN "moderate"
    ELSE IF c < 90 THEN "heavy"
    ELSE "jam"

\* generate_traffic_for_streets has returned.
Generated == pc = "tm_done" /\ color = None

\* The congestions a call of _get_traffic_level was made with, each with
\* the level it returned.
LevelCalls ==
    (IF color = None THEN {} ELSE {<<color.congestion, color.level>>})
    \cup (IF ~Generated THEN {}
          ELSE {<<traffic[i].congestion_percentage, traffic[i].traffic_level>> :
                   i \in 1..Len(traffic)})

\* C16: for every integer congestion in 0..100, _get_traffic_level returns
\* the one level the boundaries 30, 50, 70, 90 give it, jam for 100
\* included; the bands of the table neither overlap nor leave a gap below
\* 100.
C16_TrafficLevel ==
    \A lc \in LevelCalls :
        /\ lc[1] \in 0..100
        /\ lc[2] = LevelByBoundaries(lc[1])
        /\ lc[1] < 100 =>
              Cardinality({i \in 1..Len(TRAFFIC_LEVELS) :
                              /\ TRAFFIC_LEVELS[i].min <= lc[1]
                              /\ lc[1] < TRAFFIC_LEVELS[i].max}) = 1

\* The level of congestion 100, which no band of the table holds.
C16_Witness ==
    /\ color # None
    /\ color.congestion = 100
    /\ color.level = "jam"

\* C17: every entry generate_traffic_for_streets produces has an integer
\* congestion_percentage in 0..100 and an average_speed of at least
\* 10.0 km/h, for every hour, every draw and every road class.
C17_TrafficRanges ==
    Generated =>
        \A i \in 1..Len(traffic) :
            /\ traffic[i].congestion_percentage \in 0..100
            /\ traffic[i].average_speed >= 100

\* A residential street at congestion 100: 30 km/h less 70% is 9 km/h,
\* and the entry holds 10.0.
C17_Witness ==
    /\ Generated
    /\ Len(traffic) = 1
    /\ traffic[1].congestion_percentage = 100
    /\ Get(traffic[1], "highway_type", "tertiary") = "residential"
    /\ traffic[1].average_speed = 100

----------------------------------------------------------------------------
(* Properties of TravelTimePredictor *)

Predicted == pc = "tp_done"

\* What the heuristic answers for the arguments of the last call, rounded
\* as the answer is.
HeuristicMinutes ==
    SafeFloat(HeuristicPredict(prediction.distance_km,
                               TrafficTotals(prediction.traffic_conditions),
                               TimeOfDayFactor(prediction.hour)))

\* The loaded model raised or returned nan, an infinity or a value <= 0.
ModelFailed ==
    /\ model # None
    /\ \/ prediction.model_out.raises
       \/ prediction.model_out.value.kind \in {"nan", "inf", "neginf"}
       \/ prediction.model_out.value.v <= 0

\* C18: predict_travel_time returns predicted minutes and seconds greater
\* than 0 for every distance >= 0, every traffic list and every hour, with
\* or without a model and whatever the model returns.
C18_PositiveMinutes ==
    Predicted =>
        /\ prediction.answer.predicted_time_minutes > 0
        /\ prediction.answer.predicted_time_seconds > 0

\* C19: when the loaded model raises or returns nan, an infinity or a value
\* <= 0, predict_travel_time returns the minutes of the heuristic for the
\* same distance, traffic and hour.
C19_FallsBackToHeuristic ==
    (Predicted /\ ModelFailed) =>
        prediction.answer.predicted_time_minutes = HeuristicMinutes

----------------------------------------------------------------------------
(* Properties of the enhancer *)

\* A call of _calculate_route_quality has returned.
QualityCalled == pc = "te_done" /\ enhance.op = "quality"

\* A call of _create_traffic_segments has returned.
SegmentsCalled == pc = "te_done" /\ enhance.op = "segments"

\* A call of _enhance_route_with_traffic has returned.
EnhanceCalled == pc = "te_done" /\ enhance.op = "enhance"

\* The quality q stands to the list, the delay and the distance as the
\* ordered limits say.
QualityByLimits(traffic_conditions, traffic_delay, distance_km, q) ==
    LET c(k) == AvgCongestionBelow(traffic_conditions, k)
        d(k) == DelayPerKmBelow(traffic_delay, distance_km, k)
    IN /\ q \in Qualities
       /\ traffic_conditions = <<>> => q = "good"
       /\ traffic_conditions # <<>> =>
            /\ q = "excellent" <=> (c(25) /\ d(1))
            /\ q = "good" <=> (~(c(25) /\ d(1)) /\ c(50) /\ d(2))
            /\ q = "fair" <=> (~(c(50) /\ d(2)) /\ c(75) /\ d(4))
            /\ q = "poor" <=> (~c(75) \/ ~d(4))

\* C22: _calculate_route_quality answers for every list, delay and distance:
\* excellent iff congestion < 25 and delay/km < 1, otherwise good iff < 50
\* and < 2, otherwise fair iff < 75 and < 4, otherwise poor, which is so
\* exactly when congestion >= 75 or delay/km >= 4; good for the empty list.
C22_RouteQuality ==
    /\ QualityCalled =>
          QualityByLimits(enhance.traffic_conditions, enhance.traffic_delay,
                          enhance.distance_km, enhance.answer)
    /\ EnhanceCalled =>
          QualityByLimits(enhance.locals.matched_traffic, enhance.locals.traffic_delay,
                          enhance.locals.distance_km, enhance.answer.quality)

\* A list of low congestion whose delay of 4 minutes per km alone makes the
\* route poor.
C22_Witness ==
    /\ QualityCalled
    /\ enhance.traffic_conditions = <<[congestion_percentage |-> 10]>>
    /\ enhance.distance_km = 30
    /\ enhance.traffic_delay = 720
    /\ enhance.answer = "poor"

\* The levels of a traffic list, unknown where an entry has none.
Levels(traffic_conditions) ==
    [i \in 1..Len(traffic_conditions) |->
        Get(traffic_conditions[i], "traffic_level", "unknown")]

\* The levels the groups stand for, each level count times.
RECURSIVE Expand(_)
Expand(segments) ==
    IF segments = <<>> THEN <<>>
    ELSE [i \in 1..segments[1].count |-> segments[1].level] \o Expand(Tail(segments))

RECURSIVE SumCounts(_)
SumCounts(segments) ==
    IF segments = <<>> THEN 0 ELSE segments[1].count + SumCounts(Tail(segments))

\* The groups are the run-length encoding of the list's levels.
RunLengthEncoded(traffic_conditions, segments) ==
    /\ \A i \in 1..Len(segments) : segments[i].count >= 1
    /\ \A i \in 1..(Len(segments) - 1) : segments[i].level # segments[i + 1].level
    /\ SumCounts(segments) = Len(traffic_conditions)
    /\ Expand(segments) = Levels(traffic_conditions)

\* C23: _create_traffic_segments run-length-encodes the samples: groups in
\* the original order, adjacent groups of different levels, every count at
\* least 1, the counts adding up to the number of samples, the groups
\* expanding to the levels; free, free, light, light, light, free gives
\* {free, 2}, {light, 3}, {free, 1}.
C23_RunLength ==
    /\ SegmentsCalled =>
          /\ RunLengthEncoded(enhance.traffic_conditions, enhance.answer)
          /\ Levels(enhance.traffic_conditions)
                = <<"free", "free", "light", "light", "light", "free">>
             => enhance.answer = <<[level |-> "free", count |-> 2],
                                   [level |-> "light", count |-> 3],
                                   [level |-> "free", count |-> 1]>>
    /\ EnhanceCalled =>
          RunLengthEncoded(enhance.locals.matched_traffic,
                           enhance.answer.traffic_segments)

C23_Witness ==
    /\ SegmentsCalled
    /\ Levels(enhance.traffic_conditions)
          = <<"free", "free", "light", "light", "light", "free">>
    /\ Len(enhance.answer) = 3

----------------------------------------------------------------------------
(* Properties of the confidence *)

\* The congestions of a traffic list, 0 where an entry has none.
Congestions(tcs) == {Get(tcs[i], "congestion_percentage", 0) : i \in 1..Len(tcs)}

\* C25: the confidence of _calculate_confidence lies in [0.5, 1.0]: 0.7 for
\* fewer than two samples, 1.0 where all samples have the same congestion,
\* and never below 0.5 however far apart the congestions are.
C25_ConfidenceRange ==
    Predicted =>
        LET tcs == prediction.traffic_conditions
            confidence == prediction.answer.confidence
        IN /\ 500 <= confidence /\ confidence <= 1000
           /\ Len(tcs) < 2 => confidence = 700
           /\ (Len(tcs) >= 2 /\ Cardinality(Congestions(tcs)) = 1) => confidence = 1000

\* Two samples whose congestions are 300 apart: the limit 0.5 applies.
C25_Witness ==
    /\ Predicted
    /\ Len(prediction.traffic_conditions) >= 2
    /\ Congestions(prediction.traffic_conditions) = {0, 300}
    /\ prediction.answer.confidence = 500

----------------------------------------------------------------------------
(* Properties of the street loader *)

\* The caller has returned from get_bishkek_streets.
Returned(t) == loader # None /\ loader.callers[t].pc = "done"

\* The list a reference stands for.
ListAt(r) == loader.heap[r.ref]

\* The cache a check found was there and younger than 24 hours.
FoundYoung(before) ==
    /\ before.cache # None
    /\ before.cache_timestamp # None
    /\ before.now - before.cache_timestamp.at < 24

\* C26: a call that finds a cache younger than 24 hours and has no
\* force_refresh sends no request and returns the cached list, and leaves
\* cache and timestamp as they are; a call that finds the cache 24 hours old
\* or older, or none, or has force_refresh, sends a request, and the list it
\* returns is a new one that is now the cache, with a timestamp taken during
\* the call.
C26_CacheTtl ==
    Returned(1) =>
        LET c == loader.callers[1]
        IN IF FoundYoung(c.before) /\ ~c.force_refresh
           THEN /\ ~c.fetched
                /\ c.result = c.before.cache
                /\ loader.cache = c.before.cache
                /\ loader.cache_timestamp = c.before.cache_timestamp
           ELSE /\ c.fetched
                /\ c.result # c.before.cache
                /\ loader.cache = c.result
                /\ ListAt(c.result).remaining = <<>>
                /\ loader.cache_timestamp # None
                /\ c.before.now <= loader.cache_timestamp.at
                /\ loader.cache_timestamp.at <= loader.now

\* A call without force_refresh that found the cache exactly 24 hours old
\* has sent a request.
C26_Witness ==
    /\ Returned(1)
    /\ ~loader.callers[1].force_refresh
    /\ loader.callers[1].before.cache_timestamp # None
    /\ loader.callers[1].before.now - loader.callers[1].before.cache_timestamp.at = 24
    /\ loader.callers[1].fetched
    /\ loader.cache_timestamp = At(loader.callers[1].before.now)

RECURSIVE StreetsOfElements(_)
StreetsOfElements(elements) ==
    IF elements = <<>> THEN <<>>
    ELSE (IF ElementSkipped(Head(elements)) THEN <<>> ELSE <<StreetOf(Head(elements))>>)
         \o StreetsOfElements(Tail(elements))

\* The list is whole and is what the one fetch it comes from has made: the
\* streets of all elements of that response, or the built-in list.
WholeListOfOneFetch(obj) ==
    /\ obj # None
    /\ obj.remaining = <<>>
    /\ obj.streets = (IF obj.builtin THEN BuiltInStreets
                      ELSE StreetsOfElements(obj.elements))

\* C27: with two callers and every interleaving of their statements, what a
\* caller has returned and what _cache refers to is a whole list made by one
\* fetch, also after the callers have handed their lists to the traffic
\* generation and the graph building.
C27_WholeLists ==
    loader # None =>
        /\ loader.cache # None => WholeListOfOneFetch(ListAt(loader.cache))
        /\ \A t \in DOMAIN loader.callers :
              loader.callers[t].result # None
                 => WholeListOfOneFetch(ListAt(loader.callers[t].result))

\* Caller 2 found no cache and has returned the list of its own request,
\* while caller 1 has stored another list as the cache after it, has
\* returned it and handed it on.
C27_Witness ==
    /\ loader # None
    /\ loader.callers[1].pc = "idle"
    /\ loader.callers[2].pc = "done"
    /\ loader.callers[2].fetched
    /\ loader.callers[2].before.cache = None
    /\ loader.cache # None
    /\ loader.cache # loader.callers[2].result
    /\ ~ListAt(loader.cache).builtin
    /\ ListAt(loader.cache).streets # <<>>
    /\ ListAt(loader.callers[2].result).builtin

----------------------------------------------------------------------------
(* Properties of the deadline *)

\* The requests the call has sent to the routing providers so far, as
\* positions of the log.
RemoteAttempts == {i \in 1..Len(log) : log[i].ev \in {"osrm", "gh"}}

\* C30: a caller's overall deadline that passes while the first request is
\* under way (any deadline shorter than that request takes) lets the call
\* start no further request to a routing provider: the first attempt is the
\* only one, and the local tier follows it.  calculate_optimal_route has no
\* parameter that takes a deadline, and neither loop of _get_osrm_routes
\* reads a clock.
C30_DeadlineHonoured == Cardinality(RemoteAttempts) <= 1

----------------------------------------------------------------------------
(* Properties of the provider chain *)

\* C31: an answer 200 of a primary endpoint whose payload is empty or has no
\* routes key lets the chain go on to the next endpoint of the list: where
\* the primary tier ended with "No routes found" (line 56) and GraphHopper
\* took over, every endpoint of the list had been requested.
C31_MalformedAdvances ==
    "no_routes" \in excs => \A s \in 1..NumServers : RequestsTo(s) # <<>>

\* The chain has left the endpoint s without a payload from it.
LeftWithoutPayload(s) ==
    /\ RequestsTo(s) # <<>>
    /\ \A i \in 1..Len(RequestsTo(s)) : ~RequestsTo(s)[i].ok
    /\ (pc # "osrm" \/ srv > s)

\* C32: with max_retries >= 2 an endpoint is left without a payload only
\* after max_retries attempts, whether they ended with an exception or with
\* a status other than 200; and a pause follows a failed attempt on an
\* endpoint and is followed by the next attempt on the same endpoint.
C32_RetriesOnSameEndpoint ==
    max_retries >= 2 =>
        /\ \A s \in 1..NumServers :
              LeftWithoutPayload(s) => Len(RequestsTo(s)) = max_retries
        /\ \A i \in 1..Len(log) :
              log[i].ev = "sleep" =>
                 /\ i > 1
                 /\ log[i - 1] = Event("osrm", log[i].srv, FALSE)
                 /\ Len(SelectSeq(SubSeq(log, 1, i),
                                  LAMBDA x : x.ev = "osrm" /\ x.srv = log[i].srv)) < max_retries
                 /\ i < Len(log) => log[i + 1].ev = "osrm" /\ log[i + 1].srv = log[i].srv

----------------------------------------------------------------------------
(* Properties of the match with generated traffic *)

\* The entry is a street as generate_traffic_for_streets hands it out.
GeneratedEntry(t) == "coords" \in DOMAIN t /\ {"start", "end"} \cap DOMAIN t = {}

\* The sample lies within 500 m of the midpoint of the street.
NearMidpoint(sample, t) ==
    LET first == t.coords[1]
        last == t.coords[Len(t.coords)]
    IN HaversineDistance(2 * sample[1], 2 * sample[2],
                         first[1] + last[1], first[2] + last[2]) <= 500

\* C33: with the snapshot of generate_traffic_for_streets as traffic_data, a
\* route one of whose samples lies within 500 m of a street's midpoint is
\* matched with that street's entry, so that matched_traffic is made of
\* entries of the snapshot and not of the default entry.
C33_GeneratedTrafficMatched ==
    (/\ EnhanceCalled
     /\ enhance.traffic_data # <<>>
     /\ \A i \in 1..Len(enhance.traffic_data) : GeneratedEntry(enhance.traffic_data[i])
     /\ \E i \in 1..Len(enhance.traffic_data),
           j \in 1..Len(SampleRoutePoints(enhance.locals.coordinates)) :
           NearMidpoint(SampleRoutePoints(enhance.locals.coordinates)[j],
                        enhance.traffic_data[i]))
    => /\ enhance.locals.matched_traffic # <<DefaultTraffic>>
       /\ \E k \in 1..Len(enhance.locals.matched_traffic) :
             \E i \in 1..Len(enhance.traffic_data) :
                enhance.locals.matched_traffic[k] = enhance.traffic_data[i]

----------------------------------------------------------------------------
(* Properties of the accessors *)

\* C34: each of get_router, get_predictor and get_graphhopper hands the same
\* instance to every caller, also to callers on concurrent request threads,
\* and the constructor of each service runs at most once.
C34_OneInstance ==
    services # None =>
        \A svc \in ServiceNames :
            /\ services.constructed[svc] <= 1
            /\ Cardinality(services.returned[svc]) <= 1

----------------------------------------------------------------------------
(* Properties of the A* loop *)

\* The neighbour entries of all nodes of the graph.
EdgeEntries(g) ==
    UNION {{<<n, i>> : i \in 1..Len(g.adj[n])} : n \in DOMAIN g.adj}

\* What holds at every pass of the loop: no node is expanded twice, an
\* entry of g_score is replaced only by a strictly smaller score, the passes
\* are no more than the start entry and one push for every neighbour entry
\* of the graph, and what is returned is the empty list or a path from
\* start to goal.
AstarPassOk ==
    /\ \A i, j \in 1..Len(find.expanded) : i # j => find.expanded[i] # find.expanded[j]
    /\ find.visited = {find.expanded[i] : i \in 1..Len(find.expanded)}
    /\ Len(find.expanded) <= Len(find.popped)
    /\ \A e \in find.pushed : e.was # None => e.g < e.was.g
    /\ Len(find.popped) <= 1 + Cardinality(EdgeEntries(graph))
    /\ find.returned =>
          \/ find.path = <<>>
          \/ /\ IsPath(graph, find.path)
             /\ find.path[1] = find.start
             /\ find.path[Len(find.path)] = find.goal

\* C35: _astar expands every node at most once, an entry popped for a node
\* already visited being passed over; it pushes a node again only for a
\* strictly smaller g-score; and on every graph of the study it comes to
\* return, a path or the empty list.
C35_AstarTerminates == [](pc \in {"as_loop", "as_done"} => AstarPassOk) /\ <>(pc = "as_done")

\* A search that has returned after it pushed a node a second time for a
\* smaller score and passed over the entry of the first push.
C35_Witness ==
    /\ pc = "as_done"
    /\ find.returned
    /\ \E e \in find.pushed : e.was # None
    /\ Len(find.popped) > Len(find.expanded)

----------------------------------------------------------------------------
(* Properties of the result code *)

\* The routes of a result are those of a provider payload, each as often
\* as the payload holds it, whatever the enhancement added to them.
FromPayload(routes, data) ==
    LET given == Get(data, "routes", <<>>)
        raw(rs) == [i \in 1..Len(rs) |-> RawOf(rs[i])]
    IN /\ Len(routes) = Len(given)
       /\ \A i \in 1..Len(given) :
             Copies(raw(routes), RawOf(given[i])) = Copies(raw(given), RawOf(given[i]))

\* C36: a result with code Ok holds the routes of the payload of an OSRM
\* endpoint or of GraphHopper and the local tier was not entered; a result
\* with code Fallback was made by the local tier, after no provider gave
\* routes, and holds exactly one route, along a path the street search gave
\* or the straight line, and the waypoints Start and End at the caller's
\* [lng, lat].
C36_CodeTellsOrigin ==
    Done =>
        /\ result.code \in {"Ok", "Fallback"}
        /\ result.code = "Ok" <=> streets = None
        /\ result.code = "Ok" =>
              \/ /\ EventsOf("gh") = <<>>
                 /\ FromPayload(result.routes, base_routes)
              \/ /\ EventsOf("gh") # <<>>
                 /\ FromPayload(result.routes, gh_data)
        /\ result.code = "Fallback" =>
              /\ EventsOf("gh") # <<>>
              /\ ~GhUsable(gh_data)
              /\ Len(result.routes) = 1
              /\ result.routes[1].geometry.coordinates \in RouteCoords(streets, call)
              /\ result.waypoints =
                    << [name |-> "Start", location |-> <<call.start_lng, call.start_lat>>],
                       [name |-> "End", location |-> <<call.end_lng, call.end_lat>>] >>

\* GraphHopper's routes were returned with code Ok after the primary tier
\* had raised.
C36_Witness ==
    /\ Done
    /\ result.code = "Ok"
    /\ EventsOf("gh") # <<>>
    /\ Len(result.routes) >= 2
    /\ streets = None

----------------------------------------------------------------------------
(* Properties of the handler of the primary loop *)

\* The route carries the provider values the handler of lines 66-82 writes.
ProviderValues(r) ==
    /\ {"duration", "traffic_aware_duration", "traffic_delay_minutes", "confidence",
        "quality"} \subseteq DOMAIN r
    /\ r.traffic_aware_duration = r.duration
    /\ r.traffic_delay_minutes = 0
    /\ r.confidence = 100
    /\ r.quality = "good"

\* C37: once the enhancement of a route of an OSRM payload has raised, the
\* primary tier goes on with that payload: the route is in the list with
\* provider values, the routes enhanced before it are in the list as they
\* were, and the result returned holds as many routes as the payload.
C37_HandlerKeepsRoute ==
    "enhance" \in excs =>
        /\ pc \in {"osrm_enh", "done"}
        /\ EventsOf("gh") = <<>>
        /\ \E i \in 1..Len(enhanced_routes) : ProviderValues(enhanced_routes[i])
        /\ \A i \in 1..Len(enhanced_routes) :
              RawOf(enhanced_routes[i]) = RawOf(base_routes.routes[i])
        /\ Done => /\ result.code = "Ok"
                   /\ FromPayload(result.routes, base_routes)

----------------------------------------------------------------------------
(* Properties of the cache after a failed fetch *)

\* C38: a call whose fetch failed leaves the built-in list as the cache,
\* with a timestamp taken during the call, as a successful fetch would; and
\* a call without force_refresh that finds this cache younger than 24 hours
\* sends no request and returns the built-in list.
C38_FailureCached ==
    loader # None =>
        LET c == loader.callers[1]
        IN /\ (c.pc \in {"l46", "done"} /\ c.failure # "") =>
                 /\ loader.cache = c.streets
                 /\ ListAt(loader.cache).builtin
                 /\ ListAt(loader.cache).streets = BuiltInStreets
                 /\ loader.cache_timestamp # None
                 /\ c.before.now <= loader.cache_timestamp.at
                 /\ loader.cache_timestamp.at <= loader.now
           /\ (/\ c.pc = "done"
               /\ ~c.force_refresh
               /\ FoundYoung(c.before)
               /\ c.before.builtin) =>
                 /\ ~c.fetched
                 /\ c.result = c.before.cache
                 /\ ListAt(c.result).streets = BuiltInStreets

\* Twelve hours after a failed fetch a call without force_refresh has
\* returned the built-in list from the cache.
C38_Witness ==
    /\ Returned(1)
    /\ ~loader.callers[1].force_refresh
    /\ ~loader.callers[1].fetched
    /\ ListAt(loader.callers[1].result).builtin
    /\ loader.callers[1].before.now - loader.callers[1].before.cache_timestamp.at = 12

----------------------------------------------------------------------------
(* Properties of the three classifications *)

\* The congestions classified so far, each with the level it was given and
\* the code that gave it.
Classifications ==
    (IF classified.manager = "" THEN {}
     ELSE {<<classified.congestion, classified.manager, "manager">>})
    \cup (IF ~classified.row.saved THEN {}
          ELSE {<<classified.row.congestion_percentage, classified.row.traffic_level,
                  "row">>})
    \cup (IF ~classified.street.generated THEN {}
          ELSE {<<classified.street.congestion_percentage,
                  classified.street.traffic_level, "street">>})

\* C39: _get_traffic_level, update_traffic_level and generate give every
\* integer congestion in 0..100 the same level.
C39_SameLevel ==
    classified # None =>
        \A a, b \in Classifications : a[1] = b[1] => a[2] = b[2]

\* Congestion 30, the first boundary, classified by all three as light.
C39_Witness ==
    /\ classified # None
    /\ Classifications = {<<30, "light", "manager">>, <<30, "light", "row">>,
                          <<30, "light", "street">>}

====
